---- MODULE Spec2Model ----
(***************************************************************************)
(* Duck OS: the window/app kernel (the zustand store of core/os-store.ts,  *)
(* the app registry of core/app-registry.ts and the placement helpers of   *)
(* core/window-manager.ts).                                                *)
(*                                                                         *)
(* The repository holds two revisions of the store module: core/os-store.ts*)
(* (window id = appId-timestamp, spawn by cascade only) and the later      *)
(* unnamed/part_000 (window id = appId-timestamp-sequence, spawn centred   *)
(* and clamped, clamped repositioning).  storeRevision says which of the   *)
(* two is loaded; every other operation is the same text in both.          *)
(***************************************************************************)
EXTENDS Integers, Sequences, FiniteSets, TLC

(* ---------------------------------------------------------------- bounds *)
\* cap on zIndexCounter under Spec: openApp and focusWindow stop at it
MaxZ == 4
\* the clock (Date.now) takes the values 0..MaxNow
MaxNow == 1
\* uid() hands out at most MaxUid ids to createFile and createFolder
MaxUid == 2
\* the persisted store handed to the cycle sweep holds SweepCount folders
\* beside the root
SweepCount == 3
MaxExpand == 2
MaxParts == 4
\* openApp stops at MaxWindows open windows under SpecGeometry
MaxWindows == 2

(* ------------------------------------------------------------- constants *)
BASE_X == 120
BASE_Y == 80
CASCADE == 28
CASCADE_WRAP == 10
\* zIndexCounter of the initial store state
InitialZ == 1
\* the ids initFileSystem draws from uid() when it seeds the default tree
SeedUids == 5
\* the strip of the title bar the older clampPosition keeps on screen
TITLE_BAR == 60

\* focusedWindowId: null.  No window id equals it: every id holds a "-".
Null == "null"
\* nextWindowSeq of a store that never sets it (core/os-store.ts)
Undefined == "undefined"
\* typeof window === "undefined": no viewport (server render, tests)
NoWindow == [width |-> -1, height |-> -1]

(* ---------------------------------------------------------------- inputs *)
\* app definitions handed to registerApp (app/page.tsx, unnamed/part_001)
Pond == [id |-> "pond", defaultSize |-> [width |-> 600, height |-> 400]]
Nest == [id |-> "nest", defaultSize |-> [width |-> 720, height |-> 480]]
\* an app with a beforeClose hook (AppDefinition.beforeClose); the hook is a
\* function, the model keeps only that it is there
Quill == [id |-> "quill", defaultSize |-> [width |-> 860, height |-> 560],
          beforeClose |-> TRUE]
\* the definitions registered under Spec
AppDefs == {Pond}
\* another definition of the id "pond"
PondWide == [id |-> "pond", defaultSize |-> [width |-> 800, height |-> 400]]
\* the definitions handed to registerApp under SpecRegistry
RegistryDefs == {Pond, PondWide, Nest, Quill}
\* app ids handed to openApp; "lens" is never registered here
AppIds == {"pond", "lens"}
\* a window id that no openApp ever produced
GhostId == "pond-0-0-ghost"
\* window.innerWidth x window.innerHeight
Viewports == {[width |-> 1280, height |-> 720], [width |-> 640, height |-> 360]}
\* positions and sizes handed to updateWindowPosition / updateWindowSize
Positions == {[x |-> -40, y |-> 50], [x |-> 900, y |-> 500]}
Sizes == {[width |-> 300, height |-> 200], [width |-> 1400, height |-> 300]}
\* arguments handed to clampPosition on its own: positions left of, inside and
\* right of the viewports, sizes below, at and above them
ClampCoordinates == {-500, -40, 0, 400, 2000}
ClampPositions == [x : ClampCoordinates, y : ClampCoordinates]
ClampSizes == {[width |-> 300, height |-> 200], [width |-> 1280, height |-> 720],
               [width |-> 1400, height |-> 300], [width |-> 600, height |-> 800],
               [width |-> 1400, height |-> 800]}
\* core/window-manager.ts holds two revisions of clampPosition
ClampRevisions == {"rectangle", "titleBar"}

VARIABLES
    storeRevision,    \* "os-store.ts" or "part_000"
    isBooted,
    openWindows,      \* sequence of WindowInstance, in creation order
    focusedWindowId,
    registeredApps,   \* the store's list of AppDefinition
    zIndexCounter,
    nextWindowSeq,
    registry,         \* app-registry.ts: the Map, as its entries in insertion order
    now,              \* Date.now()
    viewport,         \* window.innerWidth/innerHeight, or NoWindow
    lastCall,         \* the last kernel call: [op, arg, found]
    chromeRevision,   \* the window chrome loaded: "Window.tsx" or "part_003"
    closeRequests,    \* ids of the windows whose close click awaits beforeClose
    beforeCloseResult,\* the last beforeClose that resolved: [windowId, allowed]
    clampCall,        \* one clampPosition call: its revision, arguments and result
    nodes,            \* vfs.ts: the "files" object store, id -> record
    uidCount,         \* vfs.ts: the number of ids uid() has handed out
    vfsCall,          \* the last VFS call: [op, found, error, value, removed]
    pending           \* vfs.ts: the createFile calls under way, caller -> position

kernelVars == <<isBooted, openWindows, focusedWindowId, registeredApps,
                zIndexCounter, nextWindowSeq>>
\* the window chrome (components/Window.tsx, unnamed/part_003)
chromeVars == <<chromeRevision, closeRequests, beforeCloseResult>>
\* the file system (core/vfs.ts)
vfsVars == <<nodes, uidCount, vfsCall, pending>>
\* what no kernel operation writes, the chrome apart
outsideVars == <<storeRevision, registry, now, viewport, clampCall, vfsVars>>
envVars == <<outsideVars, chromeVars>>
vars == <<storeRevision, isBooted, openWindows, focusedWindowId, registeredApps,
          zIndexCounter, nextWindowSeq, registry, now, viewport, lastCall,
          chromeRevision, closeRequests, beforeCloseResult, clampCall,
          nodes, uidCount, vfsCall, pending>>

(* --------------------------------------------------------------- helpers *)
Min(a, b) == IF a < b THEN a ELSE b
Max(a, b) == IF a > b THEN a ELSE b

\* openWindows.some((w) => w.id === windowId)
HasWindow(windowId) == \E i \in 1..Len(openWindows) : openWindows[i].id = windowId

(* ---------------------------------------------------- core/app-registry.ts *)
\* registry.has(id)
registryHas(id) == \E i \in 1..Len(registry) : registry[i].id = id

\* registry.get(id), where registryHas(id)
getAppById(id) == registry[CHOOSE i \in 1..Len(registry) : registry[i].id = id]

registry_registerApp(app) ==
    /\ registry' = IF registryHas(app.id) THEN registry ELSE Append(registry, app)
    /\ UNCHANGED <<storeRevision, now, viewport, kernelVars, lastCall, chromeVars,
                   clampCall, vfsVars>>

\* registry.clear()
clearRegistry ==
    /\ registry' = <<>>
    /\ UNCHANGED <<storeRevision, now, viewport, kernelVars, lastCall, chromeVars,
                   clampCall, vfsVars>>

(* -------------------------------------------------- core/window-manager.ts *)
\* mutant: the cascade counts the window being opened as well
getSpawnPosition_fromOne(windows) ==
    LET count == Len(windows) + 1 IN
    [x |-> BASE_X + CASCADE * (count % CASCADE_WRAP),
     y |-> BASE_Y + CASCADE * (count % CASCADE_WRAP)]

getSpawnPosition(windows) ==
    LET count == Len(windows) IN
    [x |-> BASE_X + CASCADE * (count % CASCADE_WRAP),
     y |-> BASE_Y + CASCADE * (count % CASCADE_WRAP)]

\* mutant: the lower bound 0 is left out
clampPosition_noFloor(pos, size, vp) ==
    [x |-> Min(pos.x, vp.width - size.width),
     y |-> Min(pos.y, vp.height - size.height)]

\* the revision part_000 imports (the whole rectangle stays in the viewport)
clampPosition(pos, size, vp) ==
    [x |-> Max(0, Min(pos.x, vp.width - size.width)),
     y |-> Max(0, Min(pos.y, vp.height - size.height))]

\* the other revision of the file (lines 74-84): 60 px of the title bar stay
\* in the viewport
clampPosition_titleBar(pos, size, vp) ==
    [x |-> Max(0 - size.width + TITLE_BAR, Min(pos.x, vp.width - TITLE_BAR)),
     y |-> Max(0, Min(pos.y, vp.height - TITLE_BAR))]

\* no clampPosition call under way
ClampIdle ==
    clampCall = [revision |-> "rectangle", pos |-> [x |-> 0, y |-> 0],
                 size |-> [width |-> 0, height |-> 0],
                 viewport |-> NoWindow, returned |-> <<>>]

\* one call of clampPosition with the arguments of clampCall; the position
\* returned is kept in clampCall.returned
clampPosition_call ==
    /\ clampCall.viewport # NoWindow
    /\ clampCall.returned = <<>>
    /\ clampCall' = [clampCall EXCEPT !.returned =
           <<IF clampCall.revision = "rectangle"
             THEN clampPosition(clampCall.pos, clampCall.size, clampCall.viewport)
             ELSE clampPosition_titleBar(clampCall.pos, clampCall.size,
                                         clampCall.viewport)>>]
    /\ UNCHANGED <<storeRevision, registry, now, viewport, kernelVars, lastCall,
                   chromeVars, vfsVars>>

(* -------------------------------------------------------- core/os-store.ts *)
Call(op, arg, found) == [op |-> op, arg |-> arg, found |-> found]

\* `${appId}-${Date.now()}`
WindowId(appId, t) == appId \o "-" \o ToString(t)
\* `${appId}-${Date.now()}-${nextSeq}`
WindowIdSeq(appId, t, seq) == appId \o "-" \o ToString(t) \o "-" \o ToString(seq)

\* mutant: the z-index is read from the counter before it is advanced
nextZ_stale == zIndexCounter

\* const nextZ = zIndexCounter + 1
nextZ == zIndexCounter + 1

boot ==
    /\ isBooted' = TRUE
    /\ lastCall' = Call("boot", Null, TRUE)
    /\ UNCHANGED <<openWindows, focusedWindowId, registeredApps, zIndexCounter,
                   nextWindowSeq, envVars>>

\* mutant: the definition is appended whether or not its id is there
registerApp_appends(app) ==
    /\ registeredApps' = Append(registeredApps, app)
    /\ lastCall' = Call("registerApp", app.id,
                        \E i \in 1..Len(registeredApps) : registeredApps[i].id = app.id)
    /\ UNCHANGED <<isBooted, openWindows, focusedWindowId, zIndexCounter,
                   nextWindowSeq, envVars>>

registerApp(app) ==
    /\ registeredApps' =
         IF \E i \in 1..Len(registeredApps) : registeredApps[i].id = app.id
         THEN registeredApps
         ELSE Append(registeredApps, app)
    /\ lastCall' = Call("registerApp", app.id,
                        \E i \in 1..Len(registeredApps) : registeredApps[i].id = app.id)
    /\ UNCHANGED <<isBooted, openWindows, focusedWindowId, zIndexCounter,
                   nextWindowSeq, envVars>>

\* mutant: the z-index counter is advanced before the app is looked up
openApp_countsUnknown(appId) ==
    /\ storeRevision = "os-store.ts"
    /\ lastCall' = Call("openApp", appId, registryHas(appId))
    /\ IF ~registryHas(appId)
       THEN /\ zIndexCounter' = nextZ
            /\ UNCHANGED <<isBooted, openWindows, focusedWindowId, registeredApps,
                           nextWindowSeq, envVars>>
       ELSE LET app == getAppById(appId)
                instance == [id |-> WindowId(appId, now),
                             appId |-> appId,
                             position |-> getSpawnPosition(openWindows),
                             size |-> app.defaultSize,
                             zIndex |-> nextZ,
                             isMinimized |-> FALSE,
                             isMaximized |-> FALSE]
            IN /\ openWindows' = Append(openWindows, instance)
               /\ focusedWindowId' = instance.id
               /\ zIndexCounter' = nextZ
               /\ UNCHANGED <<isBooted, registeredApps, nextWindowSeq, envVars>>

\* core/os-store.ts
openApp(appId) ==
    /\ storeRevision = "os-store.ts"
    /\ lastCall' = Call("openApp", appId, registryHas(appId))
    /\ IF ~registryHas(appId)
       THEN UNCHANGED <<kernelVars, envVars>>
       ELSE LET app == getAppById(appId)
                instance == [id |-> WindowId(appId, now),
                             appId |-> appId,
                             position |-> getSpawnPosition(openWindows),
                             size |-> app.defaultSize,
                             zIndex |-> nextZ,
                             isMinimized |-> FALSE,
                             isMaximized |-> FALSE]
            IN /\ openWindows' = Append(openWindows, instance)
               /\ focusedWindowId' = instance.id
               /\ zIndexCounter' = nextZ
               /\ UNCHANGED <<isBooted, registeredApps, nextWindowSeq, envVars>>

\* unnamed/part_000.  The sizes and viewports of this model are even, so the
\* halves of the centring are whole numbers.
openApp_seq(appId) ==
    /\ storeRevision = "part_000"
    /\ lastCall' = Call("openApp", appId, registryHas(appId))
    /\ IF ~registryHas(appId)
       THEN UNCHANGED <<kernelVars, envVars>>
       ELSE LET app == getAppById(appId)
                nextSeq == nextWindowSeq + 1
                offset == CASCADE * (Len(openWindows) % CASCADE_WRAP)
                spawn ==
                    IF viewport # NoWindow
                    THEN clampPosition(
                           [x |-> viewport.width \div 2 - app.defaultSize.width \div 2 + offset,
                            y |-> viewport.height \div 2 - app.defaultSize.height \div 2 + offset],
                           app.defaultSize, viewport)
                    ELSE getSpawnPosition(openWindows)
                instance == [id |-> WindowIdSeq(appId, now, nextSeq),
                             appId |-> appId,
                             position |-> spawn,
                             size |-> app.defaultSize,
                             zIndex |-> nextZ,
                             isMinimized |-> FALSE,
                             isMaximized |-> FALSE]
            IN /\ openWindows' = Append(openWindows, instance)
               /\ focusedWindowId' = instance.id
               /\ zIndexCounter' = nextZ
               /\ nextWindowSeq' = nextSeq
               /\ UNCHANGED <<isBooted, registeredApps, envVars>>

closeWindow(windowId) ==
    /\ lastCall' = Call("closeWindow", windowId, HasWindow(windowId))
    /\ openWindows' = SelectSeq(openWindows, LAMBDA w : w.id # windowId)
    /\ focusedWindowId' = IF focusedWindowId = windowId THEN Null ELSE focusedWindowId
    /\ UNCHANGED <<isBooted, registeredApps, zIndexCounter, nextWindowSeq, outsideVars>>

\* mutant: the raised window gets the next z-index, the counter is not stored
focusWindow_keepsCounter(windowId) ==
    /\ lastCall' = Call("focusWindow", windowId, HasWindow(windowId))
    /\ openWindows' = [i \in DOMAIN openWindows |->
         LET w == openWindows[i] IN
         IF w.id = windowId
         THEN [w EXCEPT !.zIndex = nextZ, !.isMinimized = FALSE]
         ELSE w]
    /\ focusedWindowId' = windowId
    /\ UNCHANGED <<isBooted, registeredApps, zIndexCounter, nextWindowSeq, envVars>>

focusWindow(windowId) ==
    /\ lastCall' = Call("focusWindow", windowId, HasWindow(windowId))
    /\ openWindows' = [i \in DOMAIN openWindows |->
         LET w == openWindows[i] IN
         IF w.id = windowId
         THEN [w EXCEPT !.zIndex = nextZ, !.isMinimized = FALSE]
         ELSE w]
    /\ focusedWindowId' = windowId
    /\ zIndexCounter' = nextZ
    /\ UNCHANGED <<isBooted, registeredApps, nextWindowSeq, envVars>>

\* mutant: the focus is left on the minimised window
minimizeWindow_keepsFocus(windowId) ==
    /\ lastCall' = Call("minimizeWindow", windowId, HasWindow(windowId))
    /\ openWindows' = [i \in DOMAIN openWindows |->
         LET w == openWindows[i] IN
         IF w.id = windowId THEN [w EXCEPT !.isMinimized = TRUE] ELSE w]
    /\ UNCHANGED <<isBooted, focusedWindowId, registeredApps, zIndexCounter,
                   nextWindowSeq, envVars>>

minimizeWindow(windowId) ==
    /\ lastCall' = Call("minimizeWindow", windowId, HasWindow(windowId))
    /\ openWindows' = [i \in DOMAIN openWindows |->
         LET w == openWindows[i] IN
         IF w.id = windowId THEN [w EXCEPT !.isMinimized = TRUE] ELSE w]
    /\ focusedWindowId' = IF focusedWindowId = windowId THEN Null ELSE focusedWindowId
    /\ UNCHANGED <<isBooted, registeredApps, zIndexCounter, nextWindowSeq, envVars>>

\* mutant: the window is maximised, not toggled
toggleMaximized_sets(windows, windowId) ==
    [i \in DOMAIN windows |->
        IF windows[i].id = windowId
        THEN [windows[i] EXCEPT !.isMaximized = TRUE]
        ELSE windows[i]]

\* s.openWindows.map((w) => w.id === windowId ? {...w, isMaximized: !w.isMaximized} : w)
toggleMaximized(windows, windowId) ==
    [i \in DOMAIN windows |->
        IF windows[i].id = windowId
        THEN [windows[i] EXCEPT !.isMaximized = ~windows[i].isMaximized]
        ELSE windows[i]]

toggleMaximizeWindow(windowId) ==
    /\ lastCall' = Call("toggleMaximizeWindow", windowId, HasWindow(windowId))
    /\ openWindows' = toggleMaximized(openWindows, windowId)
    /\ UNCHANGED <<isBooted, focusedWindowId, registeredApps, zIndexCounter,
                   nextWindowSeq, envVars>>

\* core/os-store.ts
updateWindowPosition(windowId, position) ==
    /\ storeRevision = "os-store.ts"
    /\ lastCall' = Call("updateWindowPosition", windowId, HasWindow(windowId))
    /\ openWindows' = [i \in DOMAIN openWindows |->
         LET w == openWindows[i] IN
         IF w.id = windowId THEN [w EXCEPT !.position = position] ELSE w]
    /\ UNCHANGED <<isBooted, focusedWindowId, registeredApps, zIndexCounter,
                   nextWindowSeq, envVars>>

\* unnamed/part_000
updateWindowPosition_clamp(windowId, position) ==
    LET pos == IF viewport # NoWindow /\ HasWindow(windowId)
               THEN LET w == openWindows[CHOOSE i \in 1..Len(openWindows) :
                                  /\ openWindows[i].id = windowId
                                  /\ \A j \in 1..(i - 1) : openWindows[j].id # windowId]
                    IN clampPosition(position, w.size, viewport)
               ELSE position
    IN
    /\ storeRevision = "part_000"
    /\ lastCall' = Call("updateWindowPosition", windowId, HasWindow(windowId))
    /\ openWindows' = [i \in DOMAIN openWindows |->
         LET w == openWindows[i] IN
         IF w.id = windowId THEN [w EXCEPT !.position = pos] ELSE w]
    /\ UNCHANGED <<isBooted, focusedWindowId, registeredApps, zIndexCounter,
                   nextWindowSeq, envVars>>

updateWindowSize(windowId, size) ==
    /\ lastCall' = Call("updateWindowSize", windowId, HasWindow(windowId))
    /\ openWindows' = [i \in DOMAIN openWindows |->
         LET w == openWindows[i] IN
         IF w.id = windowId THEN [w EXCEPT !.size = size] ELSE w]
    /\ UNCHANGED <<isBooted, focusedWindowId, registeredApps, zIndexCounter,
                   nextWindowSeq, envVars>>

clearFocus ==
    /\ lastCall' = Call("clearFocus", Null, TRUE)
    /\ focusedWindowId' = Null
    /\ UNCHANGED <<isBooted, openWindows, registeredApps, zIndexCounter,
                   nextWindowSeq, envVars>>

(* ------------------------------- components/Window.tsx, unnamed/part_003 *)
\* no close click awaits its beforeClose hook
ChromeIdle ==
    /\ closeRequests = {}
    /\ beforeCloseResult = [windowId |-> Null, allowed |-> FALSE]

\* app?.beforeClose, for app = getAppById(win.appId)
hasBeforeClose(appId) ==
    registryHas(appId) /\ "beforeClose" \in DOMAIN getAppById(appId)

\* win.appId of the rendered window with that id
appIdOf(windowId) ==
    openWindows[CHOOSE i \in 1..Len(openWindows) : openWindows[i].id = windowId].appId

\* components/Window.tsx: onClick={() => closeWindow(win.id)}
Window_onClose(windowId) ==
    /\ chromeRevision = "Window.tsx"
    /\ closeWindow(windowId)
    /\ UNCHANGED chromeVars

\* unnamed/part_003: the click handler up to its await.  A second click on a
\* window whose hook is still awaited adds nothing to the set.
WindowInner_onClose(windowId) ==
    /\ chromeRevision = "part_003"
    /\ IF hasBeforeClose(appIdOf(windowId))
       THEN /\ closeRequests' = closeRequests \cup {windowId}
            /\ UNCHANGED <<kernelVars, lastCall, outsideVars, chromeRevision,
                           beforeCloseResult>>
       ELSE /\ closeWindow(windowId)
            /\ UNCHANGED chromeVars

\* unnamed/part_003: the handler from the await on, the hook having resolved
\* to allowed
beforeClose_resolved(windowId, allowed) ==
    /\ windowId \in closeRequests
    /\ closeRequests' = closeRequests \ {windowId}
    /\ beforeCloseResult' = [windowId |-> windowId, allowed |-> allowed]
    /\ UNCHANGED chromeRevision
    /\ IF allowed
       THEN closeWindow(windowId)
       ELSE UNCHANGED <<kernelVars, lastCall, outsideVars>>

(* ------------------------------------------- components/WindowLayer.tsx: Dock *)
\* openWindows.find((w) => w.appId === app.id && !w.isMinimized), as the
\* indexes of the windows that qualify
Dock_existing(app) ==
    {i \in 1..Len(openWindows) :
        openWindows[i].appId = app.id /\ ~openWindows[i].isMinimized}

\* handleClick(app): focus the first window found, or open the app
Dock_handleClick(app) ==
    IF Dock_existing(app) # {}
    THEN focusWindow(openWindows[CHOOSE i \in Dock_existing(app) :
                                    \A j \in Dock_existing(app) : i <= j].id)
    ELSE openApp(app.id) \/ openApp_seq(app.id)

(* ------------------------------------------------------------ core/vfs.ts *)
\* A string of a path or a name is the sequence of its pieces: the separator
\* "/" and the name characters.
ROOT_ID == "root"

\* mutant: uid() returns the same id every time
Uid_same(k) == "u1"

\* the k-th id handed out by uid()
Uid(k) == "u" \o ToString(k)

\* the keys of the object store in key order (getAll returns records in it)
KeyOrder == [k \in 1..(MaxUid + SweepCount + SeedUids + 1) |->
                IF k = MaxUid + SweepCount + SeedUids + 1 THEN ROOT_ID ELSE Uid(k)]

\* the callers whose createFile calls may overlap
Callers == {1, 2}

\* a caller with no call under way
NoCall == [pc |-> "idle", op |-> "", path |-> <<>>, content |-> "",
           parent |-> Undefined, childName |-> <<>>, id |-> Undefined,
           createdAt |-> 0, error |-> "", destination |-> <<>>,
           record |-> Undefined, stack |-> <<>>, visited |-> {}, waiting |-> {},
           cut |-> {}, expansions |-> <<>>, updatedAt |-> 0,
           parts |-> <<>>, turns |-> 0]

\* the store holding the root alone: a seeded file system after
\* deleteNode("/home") and deleteNode("/system")
VfsIdle ==
    /\ pending = [caller \in Callers |-> NoCall]
    /\ nodes = [id \in {ROOT_ID} |->
                  [name |-> <<"/">>, type |-> "folder", parentId |-> Null,
                   content |-> Undefined, createdAt |-> 0, updatedAt |-> 0]]
    /\ uidCount = 0
    /\ vfsCall = [op |-> "open", found |-> FALSE, error |-> "", value |-> "",
                  removed |-> 0]

\* a call: whether its path resolved, the error thrown ("" for none), the
\* string returned (readFile) and the number of records removed (deleteNode)
VfsCall(op, found, error, value) ==
    [op |-> op, found |-> found, error |-> error, value |-> value, removed |-> 0]

\* p.replace(/\/+/g, "/")
RECURSIVE collapseSlashes(_)
collapseSlashes(p) ==
    IF Len(p) < 2 THEN p
    ELSE IF p[1] = "/" /\ p[2] = "/" THEN collapseSlashes(Tail(p))
    ELSE <<p[1]>> \o collapseSlashes(Tail(p))

\* if (!out.startsWith("/")) out = "/" + out
leadingSlash(out) == IF out # <<>> /\ out[1] = "/" THEN out ELSE <<"/">> \o out

\* if (out.length > 1 && out.endsWith("/")) out = out.slice(0, -1)
noTrailingSlash(out) ==
    IF Len(out) > 1 /\ out[Len(out)] = "/" THEN SubSeq(out, 1, Len(out) - 1) ELSE out

normalisePath(p) == noTrailingSlash(leadingSlash(collapseSlashes(p)))

\* p.split("/")
RECURSIVE split(_)
split(p) ==
    IF \A i \in 1..Len(p) : p[i] # "/" THEN <<p>>
    ELSE LET k == CHOOSE i \in 1..Len(p) :
                    p[i] = "/" /\ \A j \in 1..(i - 1) : p[j] # "/"
         IN <<SubSeq(p, 1, k - 1)>> \o split(SubSeq(p, k + 1, Len(p)))

\* normalisePath(p).split("/").filter(Boolean)
splitPath(p) == SelectSeq(split(normalisePath(p)), LAMBDA seg : seg # <<>>)

\* segments.join("/")
RECURSIVE join(_)
join(segments) ==
    IF segments = <<>> THEN <<>>
    ELSE IF Len(segments) = 1 THEN segments[1]
    ELSE segments[1] \o <<"/">> \o join(Tail(segments))

\* getById(id) finds a record
hasNode(db, id) == id \in DOMAIN db

\* getById(id), as the id when a record is found and Undefined when not
getById(db, id) == IF id # Undefined /\ hasNode(db, id) THEN id ELSE Undefined

\* getChildrenOf(parentId): the ids of the records of that parentId, in key order
getChildrenOf(db, parentId) ==
    SelectSeq(KeyOrder, LAMBDA id : hasNode(db, id) /\ db[id].parentId = parentId)

\* found[0], or Undefined
firstOf(found) == IF found = <<>> THEN Undefined ELSE found[1]

\* children.find((c) => c.name === seg), as the id found or Undefined
findChild(db, parentId, seg) ==
    firstOf(SelectSeq(getChildrenOf(db, parentId), LAMBDA id : db[id].name = seg))

\* the loop of getNodeByPath from the node current on: walk looks the next
\* segment up, walkOn goes on from the child found
RECURSIVE walk(_, _, _)
RECURSIVE walkOn(_, _, _)
walk(db, current, segments) ==
    IF segments = <<>> THEN current
    ELSE walkOn(db, findChild(db, current, segments[1]), Tail(segments))

walkOn(db, match, segments) ==
    IF match = Undefined THEN Undefined ELSE walk(db, match, segments)

\* the id of the node at the path, or Undefined
getNodeByPath(db, path) == getById(db, walk(db, ROOT_ID, splitPath(path)))

\* resolveParent from the parent node on
resolveParent_checked(db, parent, childName) ==
    IF parent = Undefined
    THEN [error |-> "Parent path not found", parent |-> Undefined,
          childName |-> childName]
    ELSE IF db[parent].type # "folder"
    THEN [error |-> "Not a folder", parent |-> parent, childName |-> childName]
    ELSE [error |-> "", parent |-> parent, childName |-> childName]

\* resolveParent from the segments on
resolveParent_segments(db, segments) ==
    IF segments = <<>>
    THEN [error |-> "Cannot resolve parent of root", parent |-> Undefined,
          childName |-> <<>>]
    ELSE resolveParent_checked(db,
             getNodeByPath(db, <<"/">> \o join(SubSeq(segments, 1, Len(segments) - 1))),
             segments[Len(segments)])

\* resolveParent: the error thrown ("" for none), the parent's id, the child name
resolveParent(db, path) == resolveParent_segments(db, splitPath(path))

\* mutant: the parent folder is never found to hold the name
hasChildNamed_never(db, parentId, name) == FALSE

\* siblings.some((s) => s.name === name)
hasChildNamed(db, parentId, name) == findChild(db, parentId, name) # Undefined

\* what no VFS operation run to completion writes
nonVfsVars == <<kernelVars, lastCall, chromeVars, clampCall, storeRevision,
                registry, now, viewport, pending>>

\* the store after putNode(node) for a record of that id
putNode(db, id, node) ==
    [k \in DOMAIN db \cup {id} |-> IF k = id THEN node ELSE db[k]]

\* createFile and createFolder from the resolved parent rp on: the error
\* thrown ("" for none) and the store and uid count they leave
create_resolved(db, rp, type, content) ==
    IF rp.error # ""
    THEN [error |-> rp.error, nodes |-> db, uidCount |-> uidCount]
    ELSE IF hasChildNamed(db, rp.parent, rp.childName)
    THEN [error |-> "Already exists", nodes |-> db, uidCount |-> uidCount]
    ELSE [error |-> "",
          nodes |-> putNode(db, Uid(uidCount + 1),
                            [name |-> rp.childName, type |-> type,
                             parentId |-> rp.parent, content |-> content,
                             createdAt |-> now, updatedAt |-> now]),
          uidCount |-> uidCount + 1]

\* the bodies of createFile and createFolder
create(db, path, type, content) ==
    create_resolved(db, resolveParent(db, path), type, content)

createFile(path, content) ==
    \E r \in {create(nodes, path, "file", content)} :
        /\ vfsCall' = VfsCall("createFile", getNodeByPath(nodes, path) # Undefined, r.error, "")
        /\ nodes' = r.nodes
        /\ uidCount' = r.uidCount
        /\ UNCHANGED nonVfsVars

createFolder(path) ==
    \E r \in {create(nodes, path, "folder", Undefined)} :
        /\ vfsCall' = VfsCall("createFolder", getNodeByPath(nodes, path) # Undefined, r.error, "")
        /\ nodes' = r.nodes
        /\ uidCount' = r.uidCount
        /\ UNCHANGED nonVfsVars

\* createFile as the steps between its awaits, for calls that overlap.
\* what a step of an overlapping call leaves alone
raceFrame == <<kernelVars, lastCall, chromeVars, clampCall, storeRevision,
               registry, now, viewport, vfsCall>>

\* the call is made; it runs up to the first storage await
createFile_called(caller, path, content) ==
    /\ pending[caller].pc = "idle"
    /\ pending' = [pending EXCEPT ![caller] =
                     [NoCall EXCEPT !.pc = "resolveParent", !.op = "createFile",
                                    !.path = path, !.content = content]]
    /\ UNCHANGED <<nodes, uidCount, raceFrame>>

\* const [parent, name] = await resolveParent(path)
createFile_resolveParent(caller) ==
    /\ pending[caller].pc = "resolveParent"
    /\ pending[caller].op = "createFile"
    /\ \E rp \in {resolveParent(nodes, pending[caller].path)} :
          pending' = [pending EXCEPT ![caller] =
                        [@ EXCEPT !.pc = IF rp.error = "" THEN "getChildrenOf" ELSE "done",
                                  !.parent = rp.parent, !.childName = rp.childName,
                                  !.error = rp.error]]
    /\ UNCHANGED <<nodes, uidCount, raceFrame>>

\* const siblings = await getChildrenOf(parent.id), the duplicate check and
\* the record built with uid(), up to the await of putNode
createFile_getChildrenOf(caller) ==
    /\ pending[caller].pc = "getChildrenOf"
    /\ pending[caller].op = "createFile"
    /\ IF hasChildNamed(nodes, pending[caller].parent, pending[caller].childName)
       THEN /\ pending' = [pending EXCEPT ![caller] =
                             [@ EXCEPT !.pc = "done", !.error = "Already exists"]]
            /\ UNCHANGED uidCount
       ELSE /\ pending' = [pending EXCEPT ![caller] =
                             [@ EXCEPT !.pc = "putNode", !.id = Uid(uidCount + 1),
                                       !.createdAt = now]]
            /\ uidCount' = uidCount + 1
    /\ UNCHANGED <<nodes, raceFrame>>

\* await putNode(node); return node
createFile_putNode(caller) ==
    /\ pending[caller].pc = "putNode"
    /\ pending[caller].op = "createFile"
    /\ nodes' = putNode(nodes, pending[caller].id,
                        [name |-> pending[caller].childName, type |-> "file",
                         parentId |-> pending[caller].parent,
                         content |-> pending[caller].content,
                         createdAt |-> pending[caller].createdAt,
                         updatedAt |-> pending[caller].createdAt])
    /\ pending' = [pending EXCEPT ![caller] = [@ EXCEPT !.pc = "done"]]
    /\ UNCHANGED <<uidCount, raceFrame>>

\* writeFile as the steps between its awaits; record is the node to put.
\* the call is made; it runs up to the first storage await
writeFile_called(caller, path, content) ==
    /\ pending[caller].pc = "idle"
    /\ pending' = [pending EXCEPT ![caller] =
                     [NoCall EXCEPT !.pc = "getNodeByPath", !.op = "writeFile",
                                    !.path = path, !.content = content]]
    /\ UNCHANGED <<nodes, uidCount, raceFrame>>

\* let node = await getNodeByPath(path): the node found is copied with the
\* new content, or createFile(path, content) is called and takes over
writeFile_getNodeByPath(caller) ==
    /\ pending[caller].pc = "getNodeByPath"
    /\ pending[caller].op = "writeFile"
    /\ \E node \in {getNodeByPath(nodes, pending[caller].path)} :
          pending' = [pending EXCEPT ![caller] =
             IF node = Undefined
             THEN [@ EXCEPT !.pc = "resolveParent", !.op = "createFile"]
             ELSE IF nodes[node].type # "file"
             THEN [@ EXCEPT !.pc = "done", !.error = "Not a file", !.id = node]
             ELSE [@ EXCEPT !.pc = "putNode", !.id = node,
                            !.record = [nodes[node] EXCEPT !.content = pending[caller].content,
                                                           !.updatedAt = now]]]
    /\ UNCHANGED <<nodes, uidCount, raceFrame>>

\* await putNode(node); return node
writeFile_putNode(caller) ==
    /\ pending[caller].pc = "putNode"
    /\ pending[caller].op = "writeFile"
    /\ nodes' = putNode(nodes, pending[caller].id, pending[caller].record)
    /\ pending' = [pending EXCEPT ![caller] = [@ EXCEPT !.pc = "done"]]
    /\ UNCHANGED <<uidCount, raceFrame>>

\* readFile from the node found on
readFile_node(db, node) ==
    IF node = Undefined THEN [error |-> "Not found", value |-> ""]
    ELSE IF db[node].type # "file" THEN [error |-> "Not a file", value |-> ""]
    ELSE IF db[node].content = Undefined THEN [error |-> "", value |-> ""]
    ELSE [error |-> "", value |-> db[node].content]

\* readFile: the error thrown ("" for none) and the string returned
readFile_result(db, path) == readFile_node(db, getNodeByPath(db, path))

readFile(path) ==
    \E r \in {readFile_result(nodes, path)} :
        /\ vfsCall' = VfsCall("readFile", r.error # "Not found", r.error, r.value)
        /\ UNCHANGED <<nodes, uidCount, nonVfsVars>>

\* mutant: an existing file keeps its content
writeFile_keepsContent(path, content) ==
    \E node \in {getNodeByPath(nodes, path)} :
        /\ IF node # Undefined
           THEN /\ vfsCall' = VfsCall("writeFile", TRUE,
                       IF nodes[node].type # "file" THEN "Not a file" ELSE "", "")
                /\ UNCHANGED <<nodes, uidCount>>
           ELSE \E r \in {create(nodes, path, "file", content)} :
                    /\ vfsCall' = VfsCall("writeFile", FALSE, r.error, "")
                    /\ nodes' = r.nodes
                    /\ uidCount' = r.uidCount
        /\ UNCHANGED nonVfsVars

writeFile(path, content) ==
    \E node \in {getNodeByPath(nodes, path)} :
        /\ IF node # Undefined
           THEN IF nodes[node].type # "file"
                THEN /\ vfsCall' = VfsCall("writeFile", TRUE, "Not a file", "")
                     /\ UNCHANGED <<nodes, uidCount>>
                ELSE /\ vfsCall' = VfsCall("writeFile", TRUE, "", "")
                     /\ nodes' = putNode(nodes, node, [nodes[node] EXCEPT !.content = content,
                                                                   !.updatedAt = now])
                     /\ UNCHANGED uidCount
           ELSE \E r \in {create(nodes, path, "file", content)} :
                    /\ vfsCall' = VfsCall("writeFile", FALSE, r.error, "")
                    /\ nodes' = r.nodes
                    /\ uidCount' = r.uidCount
        /\ UNCHANGED nonVfsVars

\* mutant: the children of the deleted folder are left in the store
deleteRecursive_top(db, id) == {id}

\* the ids deleteRecursive(id) hands to removeNode
RECURSIVE deleteRecursive(_, _)
deleteRecursive(db, id) ==
    {id} \cup UNION {deleteRecursive(db, getChildrenOf(db, id)[i]) :
                        i \in DOMAIN getChildrenOf(db, id)}

\* mutant: the root is deleted like any other node
deleteNode_error_anyNode(node) == IF node = Undefined THEN "Not found" ELSE ""

\* deleteNode: the error thrown for the node found ("" for none)
deleteNode_error(node) ==
    IF node = Undefined THEN "Not found"
    ELSE IF node = ROOT_ID THEN "Cannot delete root"
    ELSE ""

deleteNode(path) ==
    \E node \in {getNodeByPath(nodes, path)} :
        /\ vfsCall' = [VfsCall("deleteNode", node # Undefined, deleteNode_error(node), "")
                         EXCEPT !.removed = IF deleteNode_error(node) # "" THEN 0
                                            ELSE Cardinality(deleteRecursive(nodes, node))]
        /\ nodes' = IF deleteNode_error(node) # "" THEN nodes
                    ELSE [k \in DOMAIN nodes \ deleteRecursive(nodes, node) |-> nodes[k]]
        /\ UNCHANGED <<uidCount, nonVfsVars>>

\* deleteNode as the steps between its awaits.  The calls of deleteRecursive
\* under way are a stack of frames [id, children]: children are the ids read
\* by getChildrenOf(id) that the for loop has not finished with, the first of
\* them being the one the frame above is deleting.
\* mutant: the for loop over the children is skipped
deleteRecursive_descend_skipsChildren(stack, children) ==
    [stack |-> stack, pc |-> "removeNode"]

\* the loop of the top frame goes on with the children given: the call for
\* the first of them is made, or removeNode is awaited when none is left
deleteRecursive_descend(stack, children) ==
    IF children = <<>>
    THEN [stack |-> [stack EXCEPT ![Len(stack)].children = <<>>], pc |-> "removeNode"]
    ELSE [stack |-> Append([stack EXCEPT ![Len(stack)].children = children],
                           [id |-> children[1], children |-> <<>>]),
          pc |-> "getChildrenOf"]

\* the call is made; it runs up to the first storage await
deleteNode_called(caller, path) ==
    /\ pending[caller].pc = "idle"
    /\ pending' = [pending EXCEPT ![caller] =
                     [NoCall EXCEPT !.pc = "getNodeByPath", !.op = "deleteNode",
                                    !.path = path]]
    /\ UNCHANGED <<nodes, uidCount, raceFrame>>

\* const node = await getNodeByPath(path), the two checks and the call of
\* deleteRecursive(node.id)
deleteNode_getNodeByPath(caller) ==
    /\ pending[caller].pc = "getNodeByPath"
    /\ pending[caller].op = "deleteNode"
    /\ \E node \in {getNodeByPath(nodes, pending[caller].path)} :
          pending' = [pending EXCEPT ![caller] =
             IF deleteNode_error(node) # ""
             THEN [@ EXCEPT !.pc = "done", !.error = deleteNode_error(node)]
             ELSE [@ EXCEPT !.pc = "getChildrenOf", !.id = node,
                            !.stack = <<[id |-> node, children |-> <<>>]>>]]
    /\ UNCHANGED <<nodes, uidCount, raceFrame>>

\* const children = await getChildrenOf(id) of the top frame
deleteRecursive_getChildrenOf(caller) ==
    /\ pending[caller].pc = "getChildrenOf"
    /\ pending[caller].op = "deleteNode"
    /\ \E r \in {deleteRecursive_descend(
                    pending[caller].stack,
                    getChildrenOf(nodes, pending[caller].stack[Len(pending[caller].stack)].id))} :
          pending' = [pending EXCEPT ![caller] = [@ EXCEPT !.stack = r.stack, !.pc = r.pc]]
    /\ UNCHANGED <<nodes, uidCount, raceFrame>>

\* await removeNode(id) of the top frame; the frame returns and the loop of
\* the frame below goes on with its next child
deleteRecursive_removeNode(caller) ==
    /\ pending[caller].pc = "removeNode"
    /\ \E stack \in {pending[caller].stack} :
          /\ nodes' = [k \in DOMAIN nodes \ {stack[Len(stack)].id} |-> nodes[k]]
          /\ IF Len(stack) = 1
             THEN pending' = [pending EXCEPT ![caller] =
                                [@ EXCEPT !.pc = "done", !.stack = <<>>]]
             ELSE \E r \in {deleteRecursive_descend(
                                SubSeq(stack, 1, Len(stack) - 1),
                                Tail(stack[Len(stack) - 1].children))} :
                     pending' = [pending EXCEPT ![caller] =
                                   [@ EXCEPT !.stack = r.stack, !.pc = r.pc]]
    /\ UNCHANGED <<uidCount, raceFrame>>

\* getTree as the steps between its awaits.  visited is the set of the build;
\* waiting holds the ids whose build awaits getChildrenOf (Promise.all starts
\* the builds of all folder children before any of them goes on); cut holds
\* the ids returned with children: []; expansions counts, up to MaxExpand, how
\* often getChildrenOf was read for an id.  The sort of the children fixes
\* their order in the tree returned and nothing else.
\* mutant: the set of visited ids is never consulted
build_visited_never(visited, id) == FALSE

\* visited.has(node.id)
build_visited(visited, id) == id \in visited

\* build(node) for each of the nodes given, up to its first await: a node
\* seen before is returned at once, a file is returned as it is, a folder is
\* added to visited and awaits its children
build_started(db, call, started) ==
    [call EXCEPT
       !.cut = @ \cup {id \in started : build_visited(call.visited, id)},
       !.visited = @ \cup started,
       !.waiting = @ \cup {id \in started : /\ ~build_visited(call.visited, id)
                                           /\ db[id].type # "file"}]

\* the call has returned when no build is left waiting
build_settled(call) ==
    [call EXCEPT !.pc = IF call.waiting = {} THEN "done" ELSE "build"]

\* the call is made; it runs up to the first storage await
getTree_called(caller, path) ==
    /\ pending[caller].pc = "idle"
    /\ pending' = [pending EXCEPT ![caller] =
                     [NoCall EXCEPT !.pc = "getNodeByPath", !.op = "getTree",
                                    !.path = path,
                                    !.expansions = [id \in DOMAIN nodes |-> 0]]]
    /\ UNCHANGED <<nodes, uidCount, raceFrame>>

\* const root = await getNodeByPath(path), the check and build(root)
getTree_getNodeByPath(caller) ==
    /\ pending[caller].pc = "getNodeByPath"
    /\ pending[caller].op = "getTree"
    /\ \E root \in {getNodeByPath(nodes, pending[caller].path)} :
          pending' = [pending EXCEPT ![caller] =
             IF root = Undefined
             THEN [@ EXCEPT !.pc = "done", !.error = "Not found"]
             ELSE build_settled(build_started(nodes, [@ EXCEPT !.id = root], {root}))]
    /\ UNCHANGED <<nodes, uidCount, raceFrame>>

\* const children = await getChildrenOf(node.id) of one waiting build, and the
\* builds of its folder children up to their first await
getTree_build(caller, id) ==
    /\ pending[caller].pc = "build"
    /\ id \in pending[caller].waiting
    /\ pending' = [pending EXCEPT ![caller] =
          build_settled(build_started(
             nodes,
             [@ EXCEPT !.waiting = @ \ {id},
                       !.expansions[id] = IF @ < MaxExpand THEN @ + 1 ELSE @],
             {child \in DOMAIN nodes : /\ nodes[child].parentId = id
                                       /\ nodes[child].type = "folder"}))]
    /\ UNCHANGED <<nodes, uidCount, raceFrame>>

\* mutant: the walk looks at the destination folder only, not at its ancestors
meetsOnWayUp_selfOnly(db, cur, nodeId) == cur = nodeId

\* mutant: the walk never meets the moved folder
meetsOnWayUp_never(db, cur, nodeId) == FALSE

\* the while loop of moveNode: walking up from the record cur, the id of the
\* moved folder is met
RECURSIVE meetsOnWayUp(_, _, _)
meetsOnWayUp(db, cur, nodeId) ==
    IF cur = nodeId THEN TRUE
    ELSE IF db[cur].parentId = Null \/ ~hasNode(db, db[cur].parentId) THEN FALSE
    ELSE meetsOnWayUp(db, db[cur].parentId, nodeId)

\* mutant: the destination folder is never found to hold the name
hasOtherChildNamed_never(db, parentId, name, nodeId) == FALSE

\* siblings.some((s) => s.name === newName && s.id !== node.id)
hasOtherChildNamed(db, parentId, name, nodeId) ==
    \E s \in DOMAIN db :
        db[s].parentId = parentId /\ db[s].name = name /\ s # nodeId

\* moveNode: the error thrown for the node found and the resolved
\* destination ("" for none)
moveNode_error(db, node, rp) ==
    IF node = Undefined THEN "Not found"
    ELSE IF node = ROOT_ID THEN "Cannot move root"
    ELSE IF rp.error # "" THEN rp.error
    ELSE IF db[node].type = "folder" /\ meetsOnWayUp(db, rp.parent, node)
    THEN "Cannot move a folder into itself or its own descendant"
    ELSE IF hasOtherChildNamed(db, rp.parent, rp.childName, node)
    THEN "Already exists"
    ELSE ""

\* mutant: the moved node keeps its name
moveNode_put_keepsName(db, node, rp, error) ==
    [found |-> node # Undefined,
     error |-> error,
     nodes |-> IF error # "" THEN db
               ELSE putNode(db, node, [db[node] EXCEPT !.parentId = rp.parent,
                                                       !.updatedAt = now])]

\* moveNode from the error on: the store it leaves
moveNode_put(db, node, rp, error) ==
    [found |-> node # Undefined,
     error |-> error,
     nodes |-> IF error # "" THEN db
               ELSE putNode(db, node, [db[node] EXCEPT !.parentId = rp.parent,
                                                       !.name = rp.childName,
                                                       !.updatedAt = now])]

\* moveNode from the resolved destination on
moveNode_resolved(db, node, rp) ==
    moveNode_put(db, node, rp, moveNode_error(db, node, rp))

\* moveNode from the node found on; the destination is not resolved when the
\* node is missing or the root
moveNode_from(db, node, destinationPath) ==
    moveNode_resolved(db, node,
        IF node = Undefined \/ node = ROOT_ID
        THEN [error |-> "", parent |-> Undefined, childName |-> <<>>]
        ELSE resolveParent(db, destinationPath))

\* moveNode: whether the source was found, the error thrown ("" for none)
\* and the store it leaves
moveNode_result(db, sourcePath, destinationPath) ==
    moveNode_from(db, getNodeByPath(db, sourcePath), destinationPath)

moveNode(sourcePath, destinationPath) ==
    \E r \in {moveNode_result(nodes, sourcePath, destinationPath)} :
        /\ vfsCall' = VfsCall("moveNode", r.found, r.error, "")
        /\ nodes' = r.nodes
        /\ UNCHANGED <<uidCount, nonVfsVars>>

\* moveNode as the steps between its awaits.  record is the node as read at
\* the start, parent and childName the destination as resolved, stack the one
\* parentId the while loop is fetching.
\* the call is made; it runs up to the first storage await
moveNode_called(caller, sourcePath, destinationPath) ==
    /\ pending[caller].pc = "idle"
    /\ pending' = [pending EXCEPT ![caller] =
                     [NoCall EXCEPT !.pc = "getNodeByPath", !.op = "moveNode",
                                    !.path = sourcePath,
                                    !.destination = destinationPath]]
    /\ UNCHANGED <<nodes, uidCount, raceFrame>>

\* const node = await getNodeByPath(sourcePath) and the two checks
moveNode_getNodeByPath(caller) ==
    /\ pending[caller].pc = "getNodeByPath"
    /\ pending[caller].op = "moveNode"
    /\ \E node \in {getNodeByPath(nodes, pending[caller].path)} :
          pending' = [pending EXCEPT ![caller] =
             IF node = Undefined THEN [@ EXCEPT !.pc = "done", !.error = "Not found"]
             ELSE IF node = ROOT_ID
             THEN [@ EXCEPT !.pc = "done", !.error = "Cannot move root"]
             ELSE [@ EXCEPT !.pc = "resolveParent", !.id = node, !.record = nodes[node]]]
    /\ UNCHANGED <<nodes, uidCount, raceFrame>>

\* the while loop with cur the record given, up to its next await
moveNode_walk(call, cur, curParentId) ==
    IF cur = call.id
    THEN [call EXCEPT !.pc = "done",
                      !.error = "Cannot move a folder into itself or its own descendant"]
    ELSE IF curParentId = Null THEN [call EXCEPT !.pc = "getChildrenOf", !.stack = <<>>]
    ELSE [call EXCEPT !.pc = "getById", !.stack = <<curParentId>>]

\* const [newParent, newName] = await resolveParent(destinationPath), and the
\* start of the while loop for a folder
moveNode_resolveParent(caller) ==
    /\ pending[caller].pc = "resolveParent"
    /\ pending[caller].op = "moveNode"
    /\ \E rp \in {resolveParent(nodes, pending[caller].destination)} :
          pending' = [pending EXCEPT ![caller] =
             IF rp.error # "" THEN [@ EXCEPT !.pc = "done", !.error = rp.error]
             ELSE IF @.record.type = "folder"
             THEN moveNode_walk([@ EXCEPT !.parent = rp.parent,
                                          !.childName = rp.childName],
                                rp.parent, nodes[rp.parent].parentId)
             ELSE [@ EXCEPT !.pc = "getChildrenOf", !.parent = rp.parent,
                            !.childName = rp.childName]]
    /\ UNCHANGED <<nodes, uidCount, raceFrame>>

\* cur = await getById(cur.parentId), and the loop up to its next await
moveNode_getById(caller) ==
    /\ pending[caller].pc = "getById"
    /\ pending[caller].op = "moveNode"
    /\ \E cur \in {getById(nodes, pending[caller].stack[1])} :
          pending' = [pending EXCEPT ![caller] =
             IF cur = Undefined THEN [@ EXCEPT !.pc = "getChildrenOf", !.stack = <<>>]
             ELSE moveNode_walk(@, cur, nodes[cur].parentId)]
    /\ UNCHANGED <<nodes, uidCount, raceFrame>>

\* const siblings = await getChildrenOf(newParent.id), the duplicate check
\* and the record to put, updatedAt: Date.now()
moveNode_getChildrenOf(caller) ==
    /\ pending[caller].pc = "getChildrenOf"
    /\ pending[caller].op = "moveNode"
    /\ pending' = [pending EXCEPT ![caller] =
          IF hasOtherChildNamed(nodes, @.parent, @.childName, @.id)
          THEN [@ EXCEPT !.pc = "done", !.error = "Already exists"]
          ELSE [@ EXCEPT !.pc = "putNode", !.updatedAt = now]]
    /\ UNCHANGED <<nodes, uidCount, raceFrame>>

\* await putNode({...node, parentId: newParent.id, name: newName, updatedAt})
moveNode_putNode(caller) ==
    /\ pending[caller].pc = "putNode"
    /\ pending[caller].op = "moveNode"
    /\ nodes' = putNode(nodes, pending[caller].id,
                        [pending[caller].record EXCEPT
                           !.parentId = pending[caller].parent,
                           !.name = pending[caller].childName,
                           !.updatedAt = pending[caller].updatedAt])
    /\ pending' = [pending EXCEPT ![caller] = [@ EXCEPT !.pc = "done"]]
    /\ UNCHANGED <<uidCount, raceFrame>>

\* renameNode: the error thrown for the node found ("" for none)
renameNode_error(db, node, newName) ==
    IF node = Undefined THEN "Not found"
    ELSE IF node = ROOT_ID THEN "Cannot rename root"
    ELSE IF hasOtherChildNamed(db, db[node].parentId, newName, node)
    THEN "Already exists"
    ELSE ""

renameNode(path, newName) ==
    \E node \in {getNodeByPath(nodes, path)} :
    \E error \in {renameNode_error(nodes, node, newName)} :
        /\ vfsCall' = VfsCall("renameNode", node # Undefined, error, "")
        /\ nodes' = IF error # "" THEN nodes
                    ELSE putNode(nodes, node, [nodes[node] EXCEPT !.name = newName,
                                                           !.updatedAt = now])
        /\ UNCHANGED <<uidCount, nonVfsVars>>

\* getPathForNode: "/" + parts.join("/"), the names met walking up from the
\* node to the root, the root's own name left out
RECURSIVE pathParts(_, _)
pathParts(db, current) ==
    IF current = ROOT_ID \/ ~hasNode(db, current) THEN <<>>
    ELSE IF db[current].parentId = Null THEN <<db[current].name>>
    ELSE Append(pathParts(db, db[current].parentId), db[current].name)

getPathForNode(db, nodeId) == <<"/">> \o join(pathParts(db, nodeId))

\* getPathForNode as the steps between its awaits: stack holds the id the
\* loop is fetching, parts the names put in front so far (the names past
\* MaxParts are not kept), turns the number of turns of the loop, as odd or
\* even.
\* the call is made; it runs up to the first storage await
getPathForNode_called(caller, nodeId) ==
    /\ pending[caller].pc = "idle"
    /\ pending' = [pending EXCEPT ![caller] =
                     [NoCall EXCEPT !.pc = "getById", !.op = "getPathForNode",
                                    !.id = nodeId, !.stack = <<nodeId>>]]
    /\ UNCHANGED <<nodes, uidCount, raceFrame>>

\* current = await getById(...), the test of the while loop and one turn of
\* its body up to the next await
getPathForNode_getById(caller) ==
    /\ pending[caller].pc = "getById"
    /\ pending[caller].op = "getPathForNode"
    /\ \E current \in {getById(nodes, pending[caller].stack[1])} :
          pending' = [pending EXCEPT ![caller] =
             IF current = Undefined \/ current = ROOT_ID
             THEN [@ EXCEPT !.pc = "done", !.stack = <<>>]
             ELSE [@ EXCEPT
                     !.turns = (@ + 1) % 2,
                     !.parts = IF Len(@) < MaxParts THEN <<nodes[current].name>> \o @ ELSE @,
                     !.pc = IF nodes[current].parentId = Null THEN "done" ELSE "getById",
                     !.stack = IF nodes[current].parentId = Null THEN <<>>
                               ELSE <<nodes[current].parentId>>]]
    /\ UNCHANGED <<nodes, uidCount, raceFrame>>

\* childrenMap.get(id) || []
childrenMap(db, id) == {n \in DOMAIN db : db[n].parentId = id}

\* dfs of detectAndFixCycles: the ids it meets among their own ancestors
RECURSIVE dfs(_, _, _)
dfs(db, id, ancestors) ==
    IF id \in ancestors THEN {id}
    ELSE UNION {dfs(db, cid, ancestors \cup {id}) : cid \in childrenMap(db, id)}

\* the store after detectAndFixCycles: each id met is re-read and put back
\* with parentId root
detectAndFixCycles(db) ==
    [k \in DOMAIN db |->
        IF k \in dfs(db, ROOT_ID, {}) THEN [db[k] EXCEPT !.parentId = ROOT_ID]
        ELSE db[k]]

\* mk(id, name, type, parentId, content), the id apart
mk(name, type, parentId, content) ==
    [name |-> name, type |-> type, parentId |-> parentId, content |-> content,
     createdAt |-> now, updatedAt |-> now]

\* the default tree, with the next ids of uid(): home, notes, documents,
\* system and the settings file
seedNodes ==
    [k \in DOMAIN nodes \cup {ROOT_ID} \cup {Uid(uidCount + i) : i \in 1..SeedUids} |->
        IF k = ROOT_ID THEN mk(<<"/">>, "folder", Null, Undefined)
        ELSE IF k = Uid(uidCount + 1) THEN mk(<<"home">>, "folder", ROOT_ID, Undefined)
        ELSE IF k = Uid(uidCount + 2)
        THEN mk(<<"notes">>, "folder", Uid(uidCount + 1), Undefined)
        ELSE IF k = Uid(uidCount + 3)
        THEN mk(<<"documents">>, "folder", Uid(uidCount + 1), Undefined)
        ELSE IF k = Uid(uidCount + 4) THEN mk(<<"system">>, "folder", ROOT_ID, Undefined)
        ELSE IF k = Uid(uidCount + 5)
        THEN mk(<<"settings.json">>, "file", Uid(uidCount + 4),
                "{\"theme\":\"midnight\",\"locking\":false}")
        ELSE nodes[k]]

\* mutant: the default tree is seeded whether or not the root is there
initFileSystem_alwaysSeeds ==
    /\ vfsCall' = VfsCall("initFileSystem", hasNode(nodes, ROOT_ID), "", "")
    /\ nodes' = seedNodes
    /\ uidCount' = uidCount + SeedUids
    /\ UNCHANGED nonVfsVars

initFileSystem ==
    /\ vfsCall' = VfsCall("initFileSystem", hasNode(nodes, ROOT_ID), "", "")
    /\ IF hasNode(nodes, ROOT_ID)
       THEN /\ nodes' = detectAndFixCycles(nodes)
            /\ UNCHANGED uidCount
       ELSE /\ nodes' = seedNodes
            /\ uidCount' = uidCount + SeedUids
    /\ UNCHANGED nonVfsVars

\* renameNode as the steps between its awaits; record is the node as read at
\* the start, childName the new name.
\* the call is made; it runs up to the first storage await
renameNode_called(caller, path, newName) ==
    /\ pending[caller].pc = "idle"
    /\ pending' = [pending EXCEPT ![caller] =
                     [NoCall EXCEPT !.pc = "getNodeByPath", !.op = "renameNode",
                                    !.path = path, !.childName = newName]]
    /\ UNCHANGED <<nodes, uidCount, raceFrame>>

\* const node = await getNodeByPath(path) and the two checks
renameNode_getNodeByPath(caller) ==
    /\ pending[caller].pc = "getNodeByPath"
    /\ pending[caller].op = "renameNode"
    /\ \E node \in {getNodeByPath(nodes, pending[caller].path)} :
          pending' = [pending EXCEPT ![caller] =
             IF node = Undefined THEN [@ EXCEPT !.pc = "done", !.error = "Not found"]
             ELSE IF node = ROOT_ID
             THEN [@ EXCEPT !.pc = "done", !.error = "Cannot rename root"]
             ELSE [@ EXCEPT !.pc = "getChildrenOf", !.id = node, !.record = nodes[node],
                            !.parent = nodes[node].parentId]]
    /\ UNCHANGED <<nodes, uidCount, raceFrame>>

\* const siblings = await getChildrenOf(node.parentId), the duplicate check
\* and the record to put, updatedAt: Date.now()
renameNode_getChildrenOf(caller) ==
    /\ pending[caller].pc = "getChildrenOf"
    /\ pending[caller].op = "renameNode"
    /\ pending' = [pending EXCEPT ![caller] =
          IF hasOtherChildNamed(nodes, @.parent, @.childName, @.id)
          THEN [@ EXCEPT !.pc = "done", !.error = "Already exists"]
          ELSE [@ EXCEPT !.pc = "putNode", !.updatedAt = now]]
    /\ UNCHANGED <<nodes, uidCount, raceFrame>>

\* await putNode({...node, name: newName, updatedAt})
renameNode_putNode(caller) ==
    /\ pending[caller].pc = "putNode"
    /\ pending[caller].op = "renameNode"
    /\ nodes' = putNode(nodes, pending[caller].id,
                        [pending[caller].record EXCEPT
                           !.name = pending[caller].childName,
                           !.updatedAt = pending[caller].updatedAt])
    /\ pending' = [pending EXCEPT ![caller] = [@ EXCEPT !.pc = "done"]]
    /\ UNCHANGED <<uidCount, raceFrame>>

\* initFileSystem as the steps between its awaits; the records of the default
\* tree wait in stack, in the order of the for loop, as [id, record].
\* const nodes: FileNode[] = [...], with the ids uid() gives after count
seedList(count) ==
    << [id |-> ROOT_ID, record |-> mk(<<"/">>, "folder", Null, Undefined)],
       [id |-> Uid(count + 1), record |-> mk(<<"home">>, "folder", ROOT_ID, Undefined)],
       [id |-> Uid(count + 2),
        record |-> mk(<<"notes">>, "folder", Uid(count + 1), Undefined)],
       [id |-> Uid(count + 3),
        record |-> mk(<<"documents">>, "folder", Uid(count + 1), Undefined)],
       [id |-> Uid(count + 4), record |-> mk(<<"system">>, "folder", ROOT_ID, Undefined)],
       [id |-> Uid(count + 5),
        record |-> mk(<<"settings.json">>, "file", Uid(count + 4),
                      "{\"theme\":\"midnight\",\"locking\":false}")] >>

\* the call is made; it runs up to the first storage await
initFileSystem_called(caller) ==
    /\ pending[caller].pc = "idle"
    /\ pending' = [pending EXCEPT ![caller] =
                     [NoCall EXCEPT !.pc = "getById", !.op = "initFileSystem"]]
    /\ UNCHANGED <<nodes, uidCount, raceFrame>>

\* await openDB(); const root = await getById(ROOT_ID); with no root the
\* list of the default records is built and the loop awaits its first put
initFileSystem_getById(caller) ==
    /\ pending[caller].pc = "getById"
    /\ pending[caller].op = "initFileSystem"
    /\ IF hasNode(nodes, ROOT_ID)
       THEN /\ pending' = [pending EXCEPT ![caller] =
                             [@ EXCEPT !.pc = "detectAndFixCycles", !.id = ROOT_ID]]
            /\ UNCHANGED uidCount
       ELSE /\ pending' = [pending EXCEPT ![caller] =
                             [@ EXCEPT !.pc = "putNode", !.stack = seedList(uidCount)]]
            /\ uidCount' = uidCount + SeedUids
    /\ UNCHANGED <<nodes, raceFrame>>

\* await detectAndFixCycles(), taken as one step
initFileSystem_detectAndFixCycles(caller) ==
    /\ pending[caller].pc = "detectAndFixCycles"
    /\ nodes' = detectAndFixCycles(nodes)
    /\ pending' = [pending EXCEPT ![caller] = [@ EXCEPT !.pc = "done"]]
    /\ UNCHANGED <<uidCount, raceFrame>>

\* for (const n of nodes) await putNode(n): one turn of the loop
initFileSystem_putNode(caller) ==
    /\ pending[caller].pc = "putNode"
    /\ pending[caller].op = "initFileSystem"
    /\ \E stack \in {pending[caller].stack} :
          /\ nodes' = putNode(nodes, stack[1].id, stack[1].record)
          /\ pending' = [pending EXCEPT ![caller] =
                [@ EXCEPT !.stack = Tail(stack),
                          !.pc = IF Len(stack) = 1 THEN "done" ELSE "putNode"]]
    /\ UNCHANGED <<uidCount, raceFrame>>

(* ----------------------------------------------------------- environment *)
\* Date.now() moves on
Tick ==
    /\ now < MaxNow
    /\ now' = now + 1
    /\ UNCHANGED <<storeRevision, registry, viewport, kernelVars, lastCall,
                   chromeVars, clampCall, vfsVars>>

\* the ids of the open windows
OpenIds == {openWindows[i].id : i \in 1..Len(openWindows)}
\* ids that name no open window: the focused one when it is stale, and one
\* that never existed
StaleIds == (({focusedWindowId} \ {Null}) \cup {GhostId}) \ OpenIds
\* the window ids a caller may hand over
WindowIds == OpenIds \cup StaleIds

\* the store and the registry as constructed
Init ==
    /\ storeRevision \in {"os-store.ts", "part_000"}
    /\ isBooted = FALSE
    /\ openWindows = <<>>
    /\ focusedWindowId = Null
    /\ registeredApps = <<>>
    /\ zIndexCounter = InitialZ
    /\ nextWindowSeq = IF storeRevision = "part_000" THEN 0 ELSE Undefined
    /\ registry = <<>>
    /\ now = 0
    \* core/os-store.ts never reads the viewport
    /\ viewport \in (IF storeRevision = "part_000"
                        THEN Viewports \cup {NoWindow} ELSE {NoWindow})
    /\ lastCall = Call("create", Null, TRUE)
    /\ chromeRevision = "Window.tsx"
    /\ ChromeIdle
    /\ ClampIdle
    /\ VfsIdle

(* Spec: the window lifecycle under a moving clock.  The lifecycle operations  *)
(* take any id; the geometry operations take the stale ids only (a UI event   *)
(* that raced a close).                                                       *)
Next ==
    \/ boot
    \/ \E app \in AppDefs : registerApp(app)
    \/ \E app \in AppDefs : registry_registerApp(app)
    \/ \E appId \in AppIds : zIndexCounter < MaxZ /\ openApp(appId)
    \/ \E appId \in AppIds : zIndexCounter < MaxZ /\ openApp_seq(appId)
    \/ \E windowId \in WindowIds : closeWindow(windowId) /\ UNCHANGED chromeVars
    \/ \E windowId \in WindowIds : zIndexCounter < MaxZ /\ focusWindow(windowId)
    \/ \E windowId \in WindowIds : minimizeWindow(windowId)
    \/ \E windowId \in StaleIds : toggleMaximizeWindow(windowId)
    \/ \E windowId \in StaleIds, position \in Positions :
           updateWindowPosition(windowId, position)
    \/ \E windowId \in StaleIds, position \in Positions :
           updateWindowPosition_clamp(windowId, position)
    \/ \E windowId \in StaleIds, size \in Sizes : updateWindowSize(windowId, size)
    \/ clearFocus
    \/ Tick

Spec == Init /\ [][Next]_vars

(* SpecCascade: the Flight monitor's cascade test (unnamed/part_015), three    *)
(* openApp("pond") calls in a row on the store as constructed, with the apps   *)
(* of the page registered.  The clock may move between the calls.              *)
CascadeCalls == 3

\* the calls made so far: every one of them opened a window
forceCascadeTest ==
    /\ Len(openWindows) < CascadeCalls
    /\ (openApp("pond") \/ openApp_seq("pond"))

InitCascade ==
    /\ storeRevision \in {"os-store.ts", "part_000"}
    /\ isBooted = TRUE
    /\ openWindows = <<>>
    /\ focusedWindowId = Null
    /\ registry \in {<<Pond>>, <<Pond, Nest>>, <<Nest, Pond>>}
    /\ registeredApps = registry
    /\ zIndexCounter = InitialZ
    /\ nextWindowSeq = IF storeRevision = "part_000" THEN 0 ELSE Undefined
    /\ now = 0
    /\ viewport \in (IF storeRevision = "part_000"
                        THEN Viewports \cup {NoWindow} ELSE {NoWindow})
    /\ lastCall = Call("boot", Null, TRUE)
    /\ chromeRevision = "Window.tsx"
    /\ ChromeIdle
    /\ ClampIdle
    /\ VfsIdle

NextCascade ==
    \/ forceCascadeTest
    \/ Tick

SpecCascade == InitCascade /\ [][NextCascade]_vars

\* the kernel as constructed and left alone
KernelIdle ==
    /\ storeRevision = "part_000"
    /\ isBooted = FALSE
    /\ openWindows = <<>>
    /\ focusedWindowId = Null
    /\ registeredApps = <<>>
    /\ zIndexCounter = InitialZ
    /\ nextWindowSeq = 0
    /\ registry = <<>>
    /\ now = 0
    /\ viewport = NoWindow
    /\ lastCall = Call("create", Null, TRUE)
    /\ chromeRevision = "part_003"
    /\ ChromeIdle

(* SpecClamp: clampPosition on its own, one call per behaviour, for either     *)
(* revision of core/window-manager.ts and arguments drawn from the sets above. *)
InitClamp ==
    /\ KernelIdle
    /\ VfsIdle
    /\ clampCall \in [revision : ClampRevisions, pos : ClampPositions,
                      size : ClampSizes, viewport : Viewports, returned : {<<>>}]

NextClamp == clampPosition_call

SpecClamp == InitClamp /\ [][NextClamp]_vars

(* SpecChrome: windows of an app with a beforeClose hook and of one without,   *)
(* opened by the kernel and closed through the close button of the chrome.     *)
ChromeApps == {"quill", "pond"}

InitChrome ==
    /\ storeRevision \in {"os-store.ts", "part_000"}
    /\ isBooted = TRUE
    /\ openWindows = <<>>
    /\ focusedWindowId = Null
    /\ registry = <<Pond, Quill>>
    /\ registeredApps = registry
    /\ zIndexCounter = InitialZ
    /\ nextWindowSeq = IF storeRevision = "part_000" THEN 0 ELSE Undefined
    /\ now = 0
    /\ viewport = NoWindow
    /\ lastCall = Call("boot", Null, TRUE)
    /\ chromeRevision \in {"Window.tsx", "part_003"}
    /\ ChromeIdle
    /\ ClampIdle
    /\ VfsIdle

NextChrome ==
    \/ \E appId \in ChromeApps : zIndexCounter < MaxZ /\ openApp(appId)
    \/ \E appId \in ChromeApps : zIndexCounter < MaxZ /\ openApp_seq(appId)
    \/ \E windowId \in OpenIds : Window_onClose(windowId)
    \/ \E windowId \in OpenIds : WindowInner_onClose(windowId)
    \/ \E windowId \in closeRequests, allowed \in BOOLEAN :
           beforeClose_resolved(windowId, allowed)
    \/ Tick

SpecChrome == InitChrome /\ [][NextChrome]_vars

(* SpecVfs: the VFS operations, each run to completion before the next, on a   *)
(* file system that holds its root.                                            *)
\* "/", "/a", "/b", "a//b/" (the folder /a/b, not normalised) and "/a/b/a"
VfsPaths == {<<"/">>, <<"/", "a">>, <<"/", "b">>, <<"a", "/", "/", "b", "/">>,
             <<"/", "a", "/", "b", "/", "a">>}
Contents == {"", "x"}
NewNames == {<<"a">>, <<"b">>}

InitVfs ==
    /\ KernelIdle
    /\ ClampIdle
    /\ VfsIdle

NextVfs ==
    \/ \E path \in VfsPaths, content \in Contents :
           /\ uidCount < MaxUid \/ create(nodes, path, "file", content).error # ""
           /\ createFile(path, content)
    \/ \E path \in VfsPaths :
           /\ uidCount < MaxUid \/ create(nodes, path, "folder", Undefined).error # ""
           /\ createFolder(path)
    \/ \E path \in VfsPaths : readFile(path)
    \/ \E path \in VfsPaths, content \in Contents :
           /\ \/ uidCount < MaxUid
              \/ getNodeByPath(nodes, path) # Undefined
              \/ create(nodes, path, "file", content).error # ""
           /\ writeFile(path, content)
    \/ \E path \in VfsPaths : deleteNode(path)
    \/ \E sourcePath \in VfsPaths, destinationPath \in VfsPaths :
           moveNode(sourcePath, destinationPath)
    \/ \E path \in VfsPaths, newName \in NewNames : renameNode(path, newName)
    \/ initFileSystem

SpecVfs == InitVfs /\ [][NextVfs]_vars

(* SpecSweep: initFileSystem on a persisted store that holds its root and      *)
(* three folders whose parent pointers are arbitrary, cycles included.         *)
SweepIds == {Uid(k) : k \in 1..SweepCount}
SweepNames == [id \in SweepIds |->
                 IF id = Uid(1) THEN <<"a">> ELSE IF id = Uid(2) THEN <<"b">> ELSE <<"c">>]

InitSweep ==
    /\ KernelIdle
    /\ ClampIdle
    /\ uidCount = SweepCount
    /\ vfsCall = VfsCall("open", FALSE, "", "")
    /\ pending = [caller \in Callers |-> NoCall]
    /\ \E parentOf \in [SweepIds -> SweepIds \cup {ROOT_ID}],
          rootParent \in {Null, Uid(1)} :
           nodes = [id \in SweepIds \cup {ROOT_ID} |->
                      IF id = ROOT_ID
                      THEN [name |-> <<"/">>, type |-> "folder", parentId |-> rootParent,
                            content |-> Undefined, createdAt |-> 0, updatedAt |-> 0]
                      ELSE [name |-> SweepNames[id], type |-> "folder",
                            parentId |-> parentOf[id], content |-> Undefined,
                            createdAt |-> 0, updatedAt |-> 0]]

NextSweep == initFileSystem

SpecSweep == InitSweep /\ [][NextSweep]_vars

(* SpecRegistry: registrations in the store's list and in the module-level    *)
(* registry, two of the definitions sharing an id.                            *)
InitRegistry ==
    /\ storeRevision \in {"os-store.ts", "part_000"}
    /\ isBooted = FALSE
    /\ openWindows = <<>>
    /\ focusedWindowId = Null
    /\ registeredApps = <<>>
    /\ zIndexCounter = InitialZ
    /\ nextWindowSeq = IF storeRevision = "part_000" THEN 0 ELSE Undefined
    /\ registry = <<>>
    /\ now = 0
    /\ viewport = NoWindow
    /\ lastCall = Call("create", Null, TRUE)
    /\ chromeRevision = "Window.tsx"
    /\ ChromeIdle
    /\ ClampIdle
    /\ VfsIdle

NextRegistry ==
    \/ boot
    \/ \E app \in RegistryDefs : registerApp(app)
    \/ \E app \in RegistryDefs : registry_registerApp(app)
    \/ clearRegistry

SpecRegistry == InitRegistry /\ [][NextRegistry]_vars

(* SpecDock: the dock of the booted desktop.  Its icons are the store's       *)
(* registered apps; windows are opened and focused through the icons and      *)
(* minimised and closed through their chrome.                                 *)
InitDock ==
    /\ storeRevision \in {"os-store.ts", "part_000"}
    /\ isBooted = TRUE
    /\ openWindows = <<>>
    /\ focusedWindowId = Null
    /\ registry = <<Pond, Nest>>
    /\ registeredApps = registry
    /\ zIndexCounter = InitialZ
    /\ nextWindowSeq = IF storeRevision = "part_000" THEN 0 ELSE Undefined
    /\ now = 0
    /\ viewport = NoWindow
    /\ lastCall = Call("boot", Null, TRUE)
    /\ chromeRevision = "Window.tsx"
    /\ ChromeIdle
    /\ ClampIdle
    /\ VfsIdle

NextDock ==
    \/ \E k \in 1..Len(registeredApps) :
           zIndexCounter < MaxZ /\ Dock_handleClick(registeredApps[k])
    \/ \E windowId \in OpenIds : minimizeWindow(windowId)
    \/ \E windowId \in OpenIds : closeWindow(windowId) /\ UNCHANGED chromeVars
    \/ Tick

SpecDock == InitDock /\ [][NextDock]_vars

(* SpecGeometry: moving and resizing the windows that are open.  A browser    *)
(* has a viewport whichever store revision is loaded; core/os-store.ts does   *)
(* not read it.                                                               *)
InitGeometry ==
    /\ storeRevision \in {"os-store.ts", "part_000"}
    /\ isBooted = TRUE
    /\ openWindows = <<>>
    /\ focusedWindowId = Null
    /\ registry = <<Pond>>
    /\ registeredApps = registry
    /\ zIndexCounter = InitialZ
    /\ nextWindowSeq = IF storeRevision = "part_000" THEN 0 ELSE Undefined
    /\ now = 0
    /\ viewport \in Viewports \cup {NoWindow}
    /\ lastCall = Call("boot", Null, TRUE)
    /\ chromeRevision = "Window.tsx"
    /\ ChromeIdle
    /\ ClampIdle
    /\ VfsIdle

NextGeometry ==
    \/ Len(openWindows) < MaxWindows /\ openApp("pond")
    \/ Len(openWindows) < MaxWindows /\ openApp_seq("pond")
    \/ \E windowId \in OpenIds, position \in Positions :
           updateWindowPosition(windowId, position)
    \/ \E windowId \in OpenIds, position \in Positions :
           updateWindowPosition_clamp(windowId, position)
    \/ \E windowId \in OpenIds, size \in Sizes : updateWindowSize(windowId, size)

SpecGeometry == InitGeometry /\ [][NextGeometry]_vars

(* SpecFlags: minimising, maximising and focusing the windows that are open,  *)
(* under a moving clock.                                                      *)
InitFlags ==
    /\ InitGeometry
    /\ viewport = NoWindow

NextFlags ==
    \/ Len(openWindows) < MaxWindows /\ openApp("pond")
    \/ Len(openWindows) < MaxWindows /\ openApp_seq("pond")
    \/ \E windowId \in OpenIds : toggleMaximizeWindow(windowId)
    \/ \E windowId \in OpenIds : minimizeWindow(windowId)
    \/ \E windowId \in OpenIds : zIndexCounter < MaxZ /\ focusWindow(windowId)
    \/ clearFocus
    \/ Tick

SpecFlags == InitFlags /\ [][NextFlags]_vars

(* SpecRace: two createFile calls made by two callers, interleaved at their    *)
(* storage awaits, on a store that holds the root and the folder /a.           *)
\* "/b", "/a/b" and "/b/b" (no parent unless /b is a folder)
RacePaths == {<<"/", "b">>, <<"/", "a", "/", "b">>, <<"/", "b", "/", "b">>}

InitRace ==
    /\ KernelIdle
    /\ ClampIdle
    /\ nodes = putNode([id \in {ROOT_ID} |-> mk(<<"/">>, "folder", Null, Undefined)],
                       Uid(1), mk(<<"a">>, "folder", ROOT_ID, Undefined))
    /\ uidCount = 1
    /\ vfsCall = VfsCall("createFolder", FALSE, "", "")
    /\ pending = [caller \in Callers |-> NoCall]

NextRace ==
    \/ \E caller \in Callers, path \in RacePaths, content \in Contents :
           createFile_called(caller, path, content)
    \/ \E caller \in Callers : createFile_resolveParent(caller)
    \/ \E caller \in Callers : createFile_getChildrenOf(caller)
    \/ \E caller \in Callers : createFile_putNode(caller)

SpecRace == InitRace /\ [][NextRace]_vars

(* SpecRename: renaming and moving, with new names that are plain, empty or   *)
(* hold a separator.                                                          *)
\* "a", "b", "" and "a/b"
RenameNames == NewNames \cup {<<>>, <<"a", "/", "b">>}

InitRename ==
    /\ KernelIdle
    /\ ClampIdle
    /\ VfsIdle

NextRename ==
    \/ \E path \in VfsPaths, content \in Contents :
           /\ uidCount < MaxUid \/ create(nodes, path, "file", content).error # ""
           /\ createFile(path, content)
    \/ \E path \in VfsPaths :
           /\ uidCount < MaxUid \/ create(nodes, path, "folder", Undefined).error # ""
           /\ createFolder(path)
    \/ \E sourcePath \in VfsPaths, destinationPath \in VfsPaths :
           moveNode(sourcePath, destinationPath)
    \/ \E path \in VfsPaths, newName \in RenameNames : renameNode(path, newName)

SpecRename == InitRename /\ [][NextRename]_vars

(* SpecBoot: the bootstrap.  The object store starts empty; initFileSystem    *)
(* seeds the default tree and may be called again at any time, between VFS     *)
(* operations on the seeded tree.                                              *)
\* "/home", "/home/notes", "/system", "/system/settings.json" and
\* "/home/settings.json"
BootPaths == {<<"/", "home">>, <<"/", "home", "/", "notes">>, <<"/", "system">>,
              <<"/", "system", "/", "settings.json">>,
              <<"/", "home", "/", "settings.json">>}
\* the paths of the nodes initFileSystem seeds
DefaultPaths == {<<"/", "home">>, <<"/", "home", "/", "notes">>,
                 <<"/", "home", "/", "documents">>, <<"/", "system">>,
                 <<"/", "system", "/", "settings.json">>}

InitBoot ==
    /\ KernelIdle
    /\ ClampIdle
    /\ nodes = [id \in {} |-> Null]
    /\ uidCount = 0
    /\ vfsCall = VfsCall("open", FALSE, "", "")
    /\ pending = [caller \in Callers |-> NoCall]

NextBoot ==
    \/ initFileSystem
    \/ \E path \in BootPaths : deleteNode(path)
    \/ \E sourcePath \in BootPaths, destinationPath \in BootPaths :
           moveNode(sourcePath, destinationPath)
    \/ \E path \in BootPaths : readFile(path)

SpecBoot == InitBoot /\ [][NextBoot]_vars

(* ================================================================ claims *)

\* C1: all open windows have pairwise distinct ids, also when several
\* openApp calls on one app fall into the same millisecond.
C1_UniqueWindowIds ==
    \A i, j \in 1..Len(openWindows) :
        i # j => openWindows[i].id # openWindows[j].id

\* C2: focusedWindowId is null or the id of an open window.
C2_FocusedIsOpen ==
    focusedWindowId = Null \/ HasWindow(focusedWindowId)

\* C3: focusWindow(id) with an id that names no open window changes neither
\* the window list nor focusedWindowId nor the z-index counter.
C3_FocusStaleIsNoOp ==
    [][\A windowId \in StaleIds :
          focusWindow(windowId) =>
              UNCHANGED <<openWindows, focusedWindowId, zIndexCounter>>]_vars

\* C4: right after a successful openApp the new window (appended to the
\* list, the others kept) is the focused one, is neither minimized nor
\* maximized, and its z-index is strictly above every other window's.
C4_OpenAppFocusesNewTopWindow ==
    [][\A appId \in AppIds :
          (registryHas(appId) /\ (openApp(appId) \/ openApp_seq(appId))) =>
              LET n == Len(openWindows')
                  w == openWindows'[n]
              IN /\ n = Len(openWindows) + 1
                 /\ SubSeq(openWindows', 1, n - 1) = openWindows
                 /\ w.appId = appId
                 /\ focusedWindowId' = w.id
                 /\ ~w.isMinimized
                 /\ ~w.isMaximized
                 /\ \A i \in 1..(n - 1) : openWindows'[i].zIndex < w.zIndex]_vars

\* a successful openApp has just run beside an older window, after a focus
\* call had advanced the z-index counter
C4_Witness ==
    /\ lastCall.op = "openApp"
    /\ lastCall.found
    /\ Len(openWindows) >= 2
    /\ focusedWindowId = openWindows[Len(openWindows)].id
    /\ \E i \in 1..(Len(openWindows) - 1) : openWindows[i].zIndex > InitialZ + i

\* C5: right after focusWindow(id) on an open window, that window has a
\* z-index strictly above every other open window's, is not minimized and is
\* the focused one; every other window is unchanged.
C5_FocusRaisesOneWindow ==
    [][\A windowId \in OpenIds :
          focusWindow(windowId) =>
              /\ Len(openWindows') = Len(openWindows)
              /\ focusedWindowId' = windowId
              /\ \A i \in 1..Len(openWindows) :
                    IF openWindows[i].id = windowId
                    THEN /\ ~openWindows'[i].isMinimized
                         /\ \A j \in 1..Len(openWindows) :
                               j # i => openWindows'[j].zIndex < openWindows'[i].zIndex
                    ELSE openWindows'[i] = openWindows[i]]_vars

\* C6: closeWindow(id) on an open window removes that one window and leaves
\* every other window as it was; focusedWindowId becomes null if it was id
\* and is unchanged otherwise.
C6_CloseRemovesOneWindow ==
    [][\A windowId \in OpenIds :
          closeWindow(windowId) =>
              /\ \E k \in 1..Len(openWindows) :
                    /\ openWindows[k].id = windowId
                    /\ openWindows' = SubSeq(openWindows, 1, k - 1)
                                        \o SubSeq(openWindows, k + 1, Len(openWindows))
              /\ focusedWindowId' =
                    IF focusedWindowId = windowId THEN Null ELSE focusedWindowId]_vars

\* C7: the z-index counter is at least the z-index of every open window.
C7_CounterBoundsZIndex ==
    \A i \in 1..Len(openWindows) : openWindows[i].zIndex <= zIndexCounter

\* an older window was brought to the front of two
C7_Witness ==
    /\ Len(openWindows) >= 2
    /\ lastCall.op = "focusWindow"
    /\ lastCall.found
    /\ openWindows[1].zIndex = zIndexCounter
    /\ openWindows[2].zIndex < zIndexCounter

\* C8: closeWindow, minimizeWindow, toggleMaximizeWindow, updateWindowPosition
\* and updateWindowSize, called with an id that names no open window, leave
\* the whole kernel state unchanged.
C8_StaleIdIsNoOp ==
    [][\A windowId \in StaleIds :
          (\/ closeWindow(windowId)
           \/ minimizeWindow(windowId)
           \/ toggleMaximizeWindow(windowId)
           \/ \E position \in Positions :
                 \/ updateWindowPosition(windowId, position)
                 \/ updateWindowPosition_clamp(windowId, position)
           \/ \E size \in Sizes : updateWindowSize(windowId, size))
          => UNCHANGED kernelVars]_vars

\* C9: openApp with an app id that is not registered creates no window and
\* leaves window list, focusedWindowId, z-index counter and window sequence
\* as they were.
C9_UnknownAppIsNoOp ==
    [][\A appId \in AppIds :
          (~registryHas(appId) /\ (openApp(appId) \/ openApp_seq(appId))) =>
              UNCHANGED <<openWindows, focusedWindowId, zIndexCounter,
                          nextWindowSeq>>]_vars

\* an unknown app was asked for while a window was open and focused
C9_Witness ==
    /\ lastCall.op = "openApp"
    /\ ~lastCall.found
    /\ Len(openWindows) >= 1
    /\ focusedWindowId # Null
    /\ zIndexCounter > InitialZ

\* the three windows of the cascade test
CascadeDone == Len(openWindows) = CascadeCalls
CascadeZAndFocus ==
    /\ \A k \in 1..CascadeCalls : openWindows[k].zIndex = InitialZ + k
    /\ focusedWindowId = openWindows[CascadeCalls].id
CascadeByBaseOffsets ==
    \A k \in 1..CascadeCalls :
        openWindows[k].position = [x |-> BASE_X + CASCADE * (k - 1),
                                   y |-> BASE_Y + CASCADE * (k - 1)]

\* C10 as stated: three openApp("pond") calls on the initial store give
\* z-indices 2, 3, 4, the third window focused, and spawn positions one
\* cascade step apart, at x-offsets 120, 148, 176.
C10_CascadeAsStated ==
    CascadeDone => (CascadeZAndFocus /\ CascadeByBaseOffsets)

\* C10 as amended: z-indices 2, 3, 4 and the third window focused; the spawn
\* positions are 120, 148, 176 (one cascade step apart) where the store does
\* not centre the spawn, that is in core/os-store.ts, or with no viewport
\* known; with a viewport known the later store spawns each window at the
\* centred position plus 0, 28, 56, clamped into the viewport.
C10_CascadeAmended ==
    CascadeDone =>
        /\ CascadeZAndFocus
        /\ IF storeRevision = "os-store.ts" \/ viewport = NoWindow
           THEN CascadeByBaseOffsets
           ELSE \A k \in 1..CascadeCalls :
                  LET size == openWindows[k].size
                      cx == viewport.width \div 2 - size.width \div 2 + CASCADE * (k - 1)
                      cy == viewport.height \div 2 - size.height \div 2 + CASCADE * (k - 1)
                  IN /\ openWindows[k].position.x = Max(0, Min(cx, viewport.width - size.width))
                     /\ openWindows[k].position.y = Max(0, Min(cy, viewport.height - size.height))

\* the cascade test has run on the later store without a viewport
C10_Witness ==
    /\ CascadeDone
    /\ storeRevision = "part_000"
    /\ viewport = NoWindow
    /\ lastCall.op = "openApp"
    /\ openWindows[3].position.x = 176

\* C11: for every position and every size that fits the viewport in both
\* dimensions, clampPosition returns (x, y) with 0 <= x <= viewport width -
\* width and 0 <= y <= viewport height - height.
C11_ClampKeepsRectangleInside ==
    (/\ clampCall.returned # <<>>
     /\ clampCall.size.width <= clampCall.viewport.width
     /\ clampCall.size.height <= clampCall.viewport.height)
    => /\ 0 <= clampCall.returned[1].x
       /\ clampCall.returned[1].x <= clampCall.viewport.width - clampCall.size.width
       /\ 0 <= clampCall.returned[1].y
       /\ clampCall.returned[1].y <= clampCall.viewport.height - clampCall.size.height

C13_CloseOnlyAfterBeforeClose ==
    [][/\ \A i \in 1..Len(openWindows) :
            (hasBeforeClose(openWindows[i].appId) /\ openWindows[i].id \notin OpenIds')
            => /\ openWindows[i].id \in closeRequests
               /\ beforeCloseResult' = [windowId |-> openWindows[i].id, allowed |-> TRUE]
       /\ \A windowId \in closeRequests :
            beforeClose_resolved(windowId, FALSE) => UNCHANGED kernelVars]_vars

\* following parentId from id meets target within fuel steps
RECURSIVE chainReaches(_, _, _, _)
chainReaches(db, id, target, fuel) ==
    IF id = target THEN TRUE
    ELSE IF fuel = 0 \/ ~hasNode(db, id) THEN FALSE
    ELSE chainReaches(db, db[id].parentId, target, fuel - 1)

\* the stored nodes at or below the node top
SubtreeOf(db, top) ==
    {id \in DOMAIN db : chainReaches(db, id, top, Cardinality(DOMAIN db))}

\* the file nodes of the store
FileIds(db) == {id \in DOMAIN db : db[id].type = "file"}

\* the errors of the invalid-operation class
InvalidOperation ==
    {"Cannot delete root", "Cannot move root", "Cannot rename root",
     "Cannot move a folder into itself or its own descendant"}

\* C14: when writeFile(p, c) succeeds, on a file that was there as well as on
\* a path that named nothing, readFile(p) on the store it leaves returns
\* exactly c (the empty string included).
C14_WriteThenRead ==
    [][\A path \in VfsPaths, content \in Contents :
          (vfsCall'.op = "writeFile" /\ vfsCall'.error = "" /\ writeFile(path, content))
          => readFile_result(nodes', path) = [error |-> "", value |-> content]]_vars

\* the only file of the store was there before and has just been overwritten
\* with the empty string
C14_Witness ==
    /\ vfsCall.op = "writeFile"
    /\ vfsCall.found
    /\ vfsCall.error = ""
    /\ Cardinality(FileIds(nodes)) = 1
    /\ \A id \in FileIds(nodes) : nodes[id].content = ""

\* C15: no two stored nodes of the same parentId have the same name.
C15_SiblingNamesDiffer ==
    \A id, other \in DOMAIN nodes :
        (id # other /\ nodes[id].parentId = nodes[other].parentId)
        => nodes[id].name # nodes[other].name

\* a move or a rename onto a sibling's name has just been refused
C15_Witness ==
    /\ vfsCall.op \in {"moveNode", "renameNode"}
    /\ vfsCall.error = "Already exists"
    /\ \E id, other \in DOMAIN nodes :
          id # other /\ nodes[id].parentId = nodes[other].parentId

\* C16: following parentId from any stored node reaches the root node.
C16_ParentChainsReachRoot ==
    \A id \in DOMAIN nodes : chainReaches(nodes, id, ROOT_ID, Cardinality(DOMAIN nodes))

\* a move has just succeeded and the store holds a folder inside a folder
C16_Witness ==
    /\ vfsCall.op = "moveNode"
    /\ vfsCall.error = ""
    /\ \E id \in DOMAIN nodes :
          /\ nodes[id].type = "folder"
          /\ nodes[id].parentId \notin {Null, ROOT_ID}

\* C17: moveNode(src, dst), src a folder and the parent folder of dst being
\* src itself or a node below src, fails with an invalid-operation error and
\* leaves every stored node as it was.
C17_MoveIntoOwnSubtreeFails ==
    [][\A sourcePath \in VfsPaths, destinationPath \in VfsPaths :
          (/\ vfsCall'.op = "moveNode"
           /\ getNodeByPath(nodes, sourcePath) # Undefined
           /\ nodes[getNodeByPath(nodes, sourcePath)].type = "folder"
           /\ resolveParent(nodes, destinationPath).error = ""
           /\ resolveParent(nodes, destinationPath).parent
                \in SubtreeOf(nodes, getNodeByPath(nodes, sourcePath))
           /\ moveNode(sourcePath, destinationPath))
          => /\ vfsCall'.error \in InvalidOperation
             /\ nodes' = nodes]_vars

\* a folder holding a folder has just been refused a move into its own subtree
C17_Witness ==
    /\ vfsCall.op = "moveNode"
    /\ vfsCall.error = "Cannot move a folder into itself or its own descendant"
    /\ \E id \in DOMAIN nodes :
          /\ nodes[id].type = "folder"
          /\ nodes[id].parentId \notin {Null, ROOT_ID}

\* C18: after initFileSystem has run on a store that holds its root, every
\* stored node's parentId chain ends at the root, whatever the parent
\* pointers persisted before.
C18_SweepRestoresTree ==
    vfsCall.op = "initFileSystem" => C16_ParentChainsReachRoot

\* C19: deleteNode(p) on a folder removes the node at p and every node below
\* it and nothing else: the other records are unchanged, no record is left
\* whose parent was removed, and every path that led into the subtree
\* resolves to nothing.
C19_DeleteRemovesSubtree ==
    [][\A path \in VfsPaths :
          (/\ vfsCall'.op = "deleteNode"
           /\ getNodeByPath(nodes, path) \notin {Undefined, ROOT_ID}
           /\ nodes[getNodeByPath(nodes, path)].type = "folder"
           /\ deleteNode(path))
          => /\ DOMAIN nodes' = DOMAIN nodes \ SubtreeOf(nodes, getNodeByPath(nodes, path))
             /\ \A id \in DOMAIN nodes' : nodes'[id] = nodes[id]
             /\ \A id \in DOMAIN nodes' :
                   nodes'[id].parentId \notin SubtreeOf(nodes, getNodeByPath(nodes, path))
             /\ \A other \in VfsPaths :
                   getNodeByPath(nodes, other) \in SubtreeOf(nodes, getNodeByPath(nodes, path))
                   => getNodeByPath(nodes', other) = Undefined]_vars

\* a folder was deleted together with the node it held, the root is left
C19_Witness ==
    /\ vfsCall.op = "deleteNode"
    /\ vfsCall.error = ""
    /\ vfsCall.removed = 2
    /\ DOMAIN nodes = {ROOT_ID}

\* C20: createFile and createFolder fail with "Already exists" and leave the
\* store as it was when the parent folder has a child of the requested name;
\* writeFile on the path of a file that is there succeeds and sets its
\* content.
C20_CreateRefusesTakenName ==
    [][/\ \A path \in VfsPaths, content \in Contents :
            (/\ vfsCall'.op \in {"createFile", "createFolder"}
             /\ resolveParent(nodes, path).error = ""
             /\ \E id \in DOMAIN nodes :
                   /\ nodes[id].parentId = resolveParent(nodes, path).parent
                   /\ nodes[id].name = resolveParent(nodes, path).childName
             /\ createFile(path, content) \/ createFolder(path))
            => /\ vfsCall'.error = "Already exists"
               /\ nodes' = nodes
               /\ uidCount' = uidCount
       /\ \A path \in VfsPaths, content \in Contents :
            (/\ vfsCall'.op = "writeFile"
             /\ getNodeByPath(nodes, path) \in FileIds(nodes)
             /\ writeFile(path, content))
            => /\ vfsCall'.error = ""
               /\ DOMAIN nodes' = DOMAIN nodes
               /\ nodes'[getNodeByPath(nodes, path)].content = content
               /\ \A id \in DOMAIN nodes \ {getNodeByPath(nodes, path)} :
                     nodes'[id] = nodes[id]]_vars

\* a create on a taken name has just been refused
C20_Witness ==
    /\ vfsCall.op \in {"createFile", "createFolder"}
    /\ vfsCall.found
    /\ vfsCall.error = "Already exists"
    /\ FileIds(nodes) # {}

\* the stored records of the name and parent the path resolves to
NodesAt(db, path) ==
    {id \in DOMAIN db :
        /\ resolveParent(db, path).error = ""
        /\ db[id].parentId = resolveParent(db, path).parent
        /\ db[id].name = resolveParent(db, path).childName}

\* C21: initFileSystem called directly after initFileSystem writes nothing,
\* so two calls leave the tree one call leaves; when the first call seeded
\* the store, each default node is there exactly once after the second.
C21_InitTwiceIsInitOnce ==
    [][(vfsCall.op = "initFileSystem" /\ initFileSystem)
       => /\ nodes' = nodes
          /\ uidCount' = uidCount
          /\ ~vfsCall.found
               => \A path \in DefaultPaths :
                     /\ getNodeByPath(nodes', path) # Undefined
                     /\ Cardinality(NodesAt(nodes', path)) = 1]_vars

\* initFileSystem has run twice in a row on a store that was empty: the
\* second call found the root, the six seeded records are the store
C21_Witness ==
    /\ vfsCall.op = "initFileSystem"
    /\ vfsCall.found
    /\ uidCount = SeedUids
    /\ Cardinality(DOMAIN nodes) = SeedUids + 1
    /\ \A path \in DefaultPaths : getNodeByPath(nodes, path) # Undefined

\* the stored records that share parent and name with another record
DuplicateSiblings(db) ==
    {id \in DOMAIN db :
        \E other \in DOMAIN db \ {id} :
            db[other].parentId = db[id].parentId /\ db[other].name = db[id].name}

\* C22: two overlapping createFile calls on one path that both passed the
\* sibling check (neither had written when the other checked) both succeed,
\* and the records they wrote are two siblings of one name.
C22_RaceLeavesDuplicateSiblings ==
    \A caller \in Callers, other \in Callers :
        (/\ caller # other
         /\ pending[caller].pc = "done" /\ pending[caller].error = ""
         /\ pending[other].pc = "done" /\ pending[other].error = ""
         /\ splitPath(pending[caller].path) = splitPath(pending[other].path))
        => /\ pending[caller].id # pending[other].id
           /\ {pending[caller].id, pending[other].id} \subseteq DuplicateSiblings(nodes)

\* both calls on "/a/b" have returned their node: the store holds two files
\* named b in the folder /a
C22_Witness ==
    /\ \A caller \in Callers :
          /\ pending[caller].pc = "done"
          /\ pending[caller].error = ""
          /\ pending[caller].path = <<"/", "a", "/", "b">>
    /\ Cardinality(DuplicateSiblings(nodes)) = 2
    /\ \A id \in DuplicateSiblings(nodes) :
          nodes[id].type = "file" /\ nodes[id].parentId = Uid(1)

\* C23: updateWindowPosition(id, pos) on an open window, the viewport being
\* known, stores clampPosition(pos, size of the window, viewport); when the
\* window fits the viewport its corner is then within [0, viewport - size].
C23_UpdatePositionStoresClamped ==
    [][\A windowId \in OpenIds, position \in Positions :
          (/\ viewport # NoWindow
           /\ lastCall'.op = "updateWindowPosition"
           /\ \/ updateWindowPosition(windowId, position)
              \/ updateWindowPosition_clamp(windowId, position))
          => \A i \in 1..Len(openWindows) :
                openWindows[i].id = windowId
                => /\ openWindows'[i].position =
                        clampPosition(position, openWindows[i].size, viewport)
                   /\ (/\ openWindows[i].size.width <= viewport.width
                       /\ openWindows[i].size.height <= viewport.height)
                      => /\ 0 <= openWindows'[i].position.x
                         /\ openWindows'[i].position.x
                              <= viewport.width - openWindows[i].size.width
                         /\ 0 <= openWindows'[i].position.y
                         /\ openWindows'[i].position.y
                              <= viewport.height - openWindows[i].size.height]_vars

\* C24: when a successful openApp directly follows a successful openApp, the
\* window it spawns is at another position than the window spawned before it.
C24_SuccessiveSpawnsDiffer ==
    [][(/\ lastCall.op = "openApp" /\ lastCall.found
        /\ lastCall'.op = "openApp" /\ lastCall'.found
        /\ openWindows # <<>>
        /\ Len(openWindows') = Len(openWindows) + 1)
       => openWindows'[Len(openWindows')].position
            # openWindows[Len(openWindows)].position]_vars

DistinctAppIds(apps) ==
    \A i, j \in 1..Len(apps) : apps[i].id = apps[j].id => i = j

\* C27: registerApp of a definition whose id is present leaves the list as
\* it is, in the store and in the module-level registry alike, so the
\* registered definitions have pairwise distinct ids.
C27_RegisterAppIdempotent ==
    [][/\ \A app \in RegistryDefs :
            /\ (/\ lastCall'.op = "registerApp"
                /\ \E i \in 1..Len(registeredApps) : registeredApps[i].id = app.id
                /\ registerApp(app))
               => registeredApps' = registeredApps
            /\ (registryHas(app.id) /\ registry_registerApp(app))
               => registry' = registry
       /\ DistinctAppIds(registeredApps')
       /\ DistinctAppIds(registry')]_vars

\* the id "pond" has just been registered again in the store, which keeps
\* the first definition; the registry holds the other definition of the id
C27_Witness ==
    /\ lastCall = Call("registerApp", "pond", TRUE)
    /\ registeredApps = <<Nest, Pond>>
    /\ registry = <<PondWide, Quill>>

\* C28: a click on the dock icon of an app that has a window in the
\* open-window list focuses a window of that app and creates no window.
C28_DockClickFocusesExisting ==
    [][\A k \in 1..Len(registeredApps) :
          (/\ \E i \in 1..Len(openWindows) :
                 openWindows[i].appId = registeredApps[k].id
           /\ lastCall'.op \in {"focusWindow", "openApp"}
           /\ Dock_handleClick(registeredApps[k]))
          => /\ Len(openWindows') = Len(openWindows)
             /\ \E i \in 1..Len(openWindows) :
                   /\ openWindows[i].appId = registeredApps[k].id
                   /\ focusedWindowId' = openWindows[i].id]_vars

\* C29: deleteNode, moveNode and renameNode on the path of the root fail with
\* an invalid-operation error and leave the store as it was; no VFS operation
\* writes or removes the root record, which keeps parentId null.
C29_RootIsProtected ==
    [][/\ \A path \in VfsPaths :
            (/\ vfsCall'.op \in {"deleteNode", "moveNode", "renameNode"}
             /\ getNodeByPath(nodes, path) = ROOT_ID
             /\ \/ deleteNode(path)
                \/ \E destinationPath \in VfsPaths : moveNode(path, destinationPath)
                \/ \E newName \in NewNames : renameNode(path, newName))
            => /\ vfsCall'.error \in InvalidOperation
               /\ nodes' = nodes
       /\ hasNode(nodes', ROOT_ID)
       /\ nodes'[ROOT_ID] = nodes[ROOT_ID]
       /\ nodes'[ROOT_ID].parentId = Null]_vars

\* a rename of the root has just been refused on a store that holds two
\* nodes beside the root
C29_Witness ==
    /\ vfsCall.op = "renameNode"
    /\ vfsCall.error = "Cannot rename root"
    /\ Cardinality(DOMAIN nodes) = 3
    /\ nodes[ROOT_ID].parentId = Null

\* parentPath + "/" + newName for the node at the path
RenamedPath(db, path, newName) ==
    getPathForNode(db, db[getNodeByPath(db, path)].parentId) \o <<"/">> \o newName

\* C30: for every node but the root and every newName, renameNode(path,
\* newName) succeeds exactly when moveNode(path, parentPath + "/" + newName)
\* does on the same store, and on success leaves the store that move leaves.
C30_RenameIsMoveInPlace ==
    [][\A path \in VfsPaths, newName \in RenameNames :
          (/\ vfsCall'.op = "renameNode"
           /\ getNodeByPath(nodes, path) \notin {Undefined, ROOT_ID}
           /\ renameNode(path, newName))
          => /\ (vfsCall'.error = "")
                  <=> (moveNode_result(nodes, path,
                                       RenamedPath(nodes, path, newName)).error = "")
             /\ vfsCall'.error = ""
                  => nodes' = moveNode_result(nodes, path,
                                              RenamedPath(nodes, path, newName)).nodes]_vars

\* what a successful moveNode(src, dst) of the node leaves apart from the
\* fate of src: the record keeps id, type, content and createdAt, every
\* other record is as it was, dst resolves to the node and the records that
\* were below it are below it still and are found at their paths
MoveKeepsAllButPlace(node, destinationPath) ==
    /\ DOMAIN nodes' = DOMAIN nodes
    /\ \A id \in DOMAIN nodes \ {node} : nodes'[id] = nodes[id]
    /\ nodes'[node].type = nodes[node].type
    /\ nodes'[node].content = nodes[node].content
    /\ nodes'[node].createdAt = nodes[node].createdAt
    /\ getNodeByPath(nodes', destinationPath) = node
    /\ \A id \in SubtreeOf(nodes, node) :
          /\ id \in SubtreeOf(nodes', node)
          /\ getNodeByPath(nodes', getPathForNode(nodes', id)) = id

\* C31 as stated: a successful moveNode(src, dst) changes parentId, name and
\* updatedAt of the moved node only, and afterwards src no longer resolves
\* while dst resolves to the node with its former descendants beneath it.
C31_MoveChangesPlaceOnly ==
    [][\A sourcePath \in VfsPaths, destinationPath \in VfsPaths :
          (/\ vfsCall'.op = "moveNode" /\ vfsCall'.error = ""
           /\ moveNode(sourcePath, destinationPath))
          => /\ MoveKeepsAllButPlace(getNodeByPath(nodes, sourcePath), destinationPath)
             /\ getNodeByPath(nodes', sourcePath) = Undefined]_vars

\* C31 as amended: src no longer resolves unless dst names the place the
\* node is at already, in which case the move succeeds and src resolves to
\* the node as before.
C31_MoveChangesPlaceOnlyAmended ==
    [][\A sourcePath \in VfsPaths, destinationPath \in VfsPaths :
          (/\ vfsCall'.op = "moveNode" /\ vfsCall'.error = ""
           /\ moveNode(sourcePath, destinationPath))
          => /\ MoveKeepsAllButPlace(getNodeByPath(nodes, sourcePath), destinationPath)
             /\ getNodeByPath(nodes', sourcePath) =
                  IF splitPath(sourcePath) = splitPath(destinationPath)
                  THEN getNodeByPath(nodes, sourcePath)
                  ELSE Undefined]_vars

\* the folder /a holding a node has just been moved to /b
C31_Witness ==
    /\ vfsCall.op = "moveNode"
    /\ vfsCall.error = ""
    /\ getNodeByPath(nodes, <<"/", "a">>) = Undefined
    /\ getNodeByPath(nodes, <<"/", "b">>) # Undefined
    /\ Cardinality(SubtreeOf(nodes, getNodeByPath(nodes, <<"/", "b">>))) = 2

(* SpecDelete: one deleteNode call followed step by step, no other operation  *)
(* running, on each tree that SweepCount named nodes under the root can form. *)
\* every parent chain of the store reaches the root
IsTree(db) ==
    \A id \in DOMAIN db : chainReaches(db, id, ROOT_ID, Cardinality(DOMAIN db))

InitDelete ==
    /\ KernelIdle
    /\ ClampIdle
    /\ uidCount = SweepCount
    /\ vfsCall = VfsCall("open", FALSE, "", "")
    /\ pending = [caller \in Callers |-> NoCall]
    /\ \E parentOf \in [SweepIds -> SweepIds \cup {ROOT_ID}] :
          /\ nodes = [id \in SweepIds \cup {ROOT_ID} |->
                        IF id = ROOT_ID THEN mk(<<"/">>, "folder", Null, Undefined)
                        ELSE mk(SweepNames[id], "folder", parentOf[id], Undefined)]
          /\ IsTree(nodes)

NextDelete ==
    \/ \E id \in DOMAIN nodes : deleteNode_called(1, getPathForNode(nodes, id))
    \/ deleteNode_getNodeByPath(1)
    \/ deleteRecursive_getChildrenOf(1)
    \/ deleteRecursive_removeNode(1)

SpecDelete == InitDelete /\ [][NextDelete]_vars

\* C32: while a deleteNode runs alone, a record is removed only when no
\* record names it as parent, so after every step each record that is left
\* has its parent in the store.
C32_DeleteIsPostOrder ==
    [][/\ \A id \in DOMAIN nodes \ DOMAIN nodes' :
            \A child \in DOMAIN nodes : nodes[child].parentId # id
       /\ \A id \in DOMAIN nodes' \ {ROOT_ID} : hasNode(nodes', nodes'[id].parentId)]_vars

\* the delete of a folder holding a folder that holds a folder is half way:
\* the innermost record is gone, the two above it are still there
C32_Witness ==
    /\ pending[1].op = "deleteNode"
    /\ pending[1].pc = "removeNode"
    /\ Len(pending[1].stack) = 2
    /\ Cardinality(DOMAIN nodes) = SweepCount
    /\ \A id \in DOMAIN nodes \ {ROOT_ID} : hasNode(nodes, nodes[id].parentId)

(* SpecTree: one getTree call followed step by step on a store whose parent   *)
(* pointers are arbitrary; a request the store was sent is answered.          *)
TreePaths == {<<"/">>, <<"/", "a">>, <<"/", "b">>, <<"/", "a", "/", "b">>}

NextTree ==
    \/ \E path \in TreePaths : getTree_called(1, path)
    \/ getTree_getNodeByPath(1)
    \/ \E id \in DOMAIN nodes : getTree_build(1, id)

SpecTree ==
    /\ InitSweep
    /\ [][NextTree]_vars
    /\ WF_vars(getTree_getNodeByPath(1))
    /\ WF_vars(\E id \in DOMAIN nodes : getTree_build(1, id))

\* C33: a getTree call comes to its end on every store, parent cycles
\* included; no id has its children read twice, and an id met again is
\* returned with no children.
C33_GetTreeTerminates ==
    /\ [](\A id \in DOMAIN pending[1].expansions : pending[1].expansions[id] <= 1)
    /\ [](pending[1].cut \cap pending[1].waiting = {})
    /\ (pending[1].op = "getTree") ~> (pending[1].pc = "done")

\* a call has ended after it met an id again
C33_Witness ==
    /\ pending[1].op = "getTree"
    /\ pending[1].pc = "done"
    /\ pending[1].error = ""
    /\ pending[1].cut # {}
    /\ Cardinality(pending[1].visited) > 1

\* C34: the focused window is never minimized: an open window whose id is
\* focusedWindowId has its minimized flag off.
C34_FocusedNotMinimized ==
    \A i \in 1..Len(openWindows) :
        openWindows[i].id = focusedWindowId => ~openWindows[i].isMinimized

\* C35: no two open windows have the same z-index.
C35_DistinctZIndexes ==
    \A i, j \in 1..Len(openWindows) :
        i # j => openWindows[i].zIndex # openWindows[j].zIndex

(* SpecMount: the mount effects of two apps call initFileSystem on a store     *)
(* that is empty, and the two calls interleave at their storage awaits.        *)
NextMount ==
    \/ \E caller \in Callers : initFileSystem_called(caller)
    \/ \E caller \in Callers : initFileSystem_getById(caller)
    \/ \E caller \in Callers : initFileSystem_detectAndFixCycles(caller)
    \/ \E caller \in Callers : initFileSystem_putNode(caller)

SpecMount == InitBoot /\ [][NextMount]_vars

\* C36: once initFileSystem calls that overlapped on an empty store are all
\* done, the store holds the tree of a single call: one root, one record for
\* each default path, no two siblings of one name.
C36_OverlappingInitSeedsOnce ==
    (\A caller \in Callers :
        pending[caller].op = "initFileSystem" /\ pending[caller].pc = "done")
    => /\ Cardinality(DOMAIN nodes) = SeedUids + 1
       /\ DuplicateSiblings(nodes) = {}
       /\ \A path \in DefaultPaths : Cardinality(NodesAt(nodes, path)) = 1

(* SpecMoveRace: two moveNode calls made by two callers, interleaved at their *)
(* storage awaits, on a store that holds the root and the folders /a and /b.  *)
\* /a into /b, /b into /a, and /a to the free name /c
MovePairs == { << <<"/", "a">>, <<"/", "b", "/", "a">> >>,
               << <<"/", "b">>, <<"/", "a", "/", "b">> >>,
               << <<"/", "a">>, <<"/", "c">> >> }

InitMoveRace ==
    /\ KernelIdle
    /\ ClampIdle
    /\ nodes = putNode(putNode([id \in {ROOT_ID} |-> mk(<<"/">>, "folder", Null, Undefined)],
                               Uid(1), mk(<<"a">>, "folder", ROOT_ID, Undefined)),
                       Uid(2), mk(<<"b">>, "folder", ROOT_ID, Undefined))
    /\ uidCount = 2
    /\ vfsCall = VfsCall("createFolder", FALSE, "", "")
    /\ pending = [caller \in Callers |-> NoCall]

NextMoveRace ==
    \/ \E caller \in Callers, pair \in MovePairs : moveNode_called(caller, pair[1], pair[2])
    \/ \E caller \in Callers : moveNode_getNodeByPath(caller)
    \/ \E caller \in Callers : moveNode_resolveParent(caller)
    \/ \E caller \in Callers : moveNode_getById(caller)
    \/ \E caller \in Callers : moveNode_getChildrenOf(caller)
    \/ \E caller \in Callers : moveNode_putNode(caller)

SpecMoveRace == InitMoveRace /\ [][NextMoveRace]_vars

\* C37: once two interleaved moveNode calls are both done, every parent chain
\* of the store still ends at the root.
C37_ConcurrentMovesAcyclic ==
    (\A caller \in Callers :
        pending[caller].op = "moveNode" /\ pending[caller].pc = "done")
    => IsTree(nodes)

(* SpecOrphan: createFile, writeFile and moveNode into the folder /a while a  *)
(* deleteNode removes it, two callers interleaved at their storage awaits, on *)
(* a store that holds the root and the folders /a and /b.                     *)
NextOrphan ==
    \/ \E caller \in Callers : createFile_called(caller, <<"/", "a", "/", "f">>, "x")
    \/ \E caller \in Callers : createFile_resolveParent(caller)
    \/ \E caller \in Callers : createFile_getChildrenOf(caller)
    \/ \E caller \in Callers : createFile_putNode(caller)
    \/ \E caller \in Callers : writeFile_called(caller, <<"/", "a", "/", "f">>, "x")
    \/ \E caller \in Callers : writeFile_getNodeByPath(caller)
    \/ \E caller \in Callers : writeFile_putNode(caller)
    \/ \E caller \in Callers :
           moveNode_called(caller, <<"/", "b">>, <<"/", "a", "/", "b">>)
    \/ \E caller \in Callers : moveNode_getNodeByPath(caller)
    \/ \E caller \in Callers : moveNode_resolveParent(caller)
    \/ \E caller \in Callers : moveNode_getById(caller)
    \/ \E caller \in Callers : moveNode_getChildrenOf(caller)
    \/ \E caller \in Callers : moveNode_putNode(caller)
    \/ \E caller \in Callers : deleteNode_called(caller, <<"/", "a">>)
    \/ \E caller \in Callers : deleteNode_getNodeByPath(caller)
    \/ \E caller \in Callers : deleteRecursive_getChildrenOf(caller)
    \/ \E caller \in Callers : deleteRecursive_removeNode(caller)

SpecOrphan == InitMoveRace /\ [][NextOrphan]_vars

\* C38: once the interleaved VFS operations are all done, the parentId of
\* every stored node but the root names a folder that is in the store.
C38_NoOrphanAfterRace ==
    (\A caller \in Callers : pending[caller].pc \in {"idle", "done"})
    => \A id \in DOMAIN nodes \ {ROOT_ID} :
          /\ hasNode(nodes, nodes[id].parentId)
          /\ nodes[nodes[id].parentId].type = "folder"

(* SpecLostUpdate: a writeFile on the file /f while a renameNode or a moveNode *)
(* of /f is under way, two callers interleaved at their storage awaits.        *)
InitLostUpdate ==
    /\ KernelIdle
    /\ ClampIdle
    /\ nodes = putNode(putNode([id \in {ROOT_ID} |-> mk(<<"/">>, "folder", Null, Undefined)],
                               Uid(1), mk(<<"f">>, "file", ROOT_ID, "")),
                       Uid(2), mk(<<"a">>, "folder", ROOT_ID, Undefined))
    /\ uidCount = 2
    /\ vfsCall = VfsCall("createFolder", FALSE, "", "")
    /\ pending = [caller \in Callers |-> NoCall]

NextLostUpdate ==
    \/ \E caller \in Callers : writeFile_called(caller, <<"/", "f">>, "x")
    \/ \E caller \in Callers : writeFile_getNodeByPath(caller)
    \/ \E caller \in Callers : writeFile_putNode(caller)
    \/ \E caller \in Callers : createFile_resolveParent(caller)
    \/ \E caller \in Callers : createFile_getChildrenOf(caller)
    \/ \E caller \in Callers : createFile_putNode(caller)
    \/ \E caller \in Callers : renameNode_called(caller, <<"/", "f">>, <<"g">>)
    \/ \E caller \in Callers : renameNode_getNodeByPath(caller)
    \/ \E caller \in Callers : renameNode_getChildrenOf(caller)
    \/ \E caller \in Callers : renameNode_putNode(caller)
    \/ \E caller \in Callers :
           moveNode_called(caller, <<"/", "f">>, <<"/", "a", "/", "f">>)
    \/ \E caller \in Callers : moveNode_getNodeByPath(caller)
    \/ \E caller \in Callers : moveNode_resolveParent(caller)
    \/ \E caller \in Callers : moveNode_getChildrenOf(caller)
    \/ \E caller \in Callers : moveNode_putNode(caller)

SpecLostUpdate == InitLostUpdate /\ [][NextLostUpdate]_vars

\* C39: once a writeFile on an existing file and a successful renameNode or
\* moveNode of the same file are both done, the stored node has the content
\* written and the name and parent the rename or move gave it.
C39_WriteAndRenameBothKept ==
    \A caller \in Callers, other \in Callers :
        (/\ caller # other
         /\ pending[caller].op = "writeFile"
         /\ pending[caller].pc = "done" /\ pending[caller].error = ""
         /\ pending[other].op \in {"renameNode", "moveNode"}
         /\ pending[other].pc = "done" /\ pending[other].error = ""
         /\ pending[other].id = pending[caller].id)
        => /\ nodes[pending[caller].id].content = pending[caller].content
           /\ nodes[pending[caller].id].name = pending[other].childName
           /\ nodes[pending[caller].id].parentId = pending[other].parent

(* SpecPath: one getPathForNode call followed step by step on a store whose   *)
(* parent pointers are arbitrary; a request the store was sent is answered.   *)
NextPath ==
    \/ \E nodeId \in DOMAIN nodes : getPathForNode_called(1, nodeId)
    \/ getPathForNode_getById(1)

SpecPath ==
    /\ InitSweep
    /\ [][NextPath]_vars
    /\ WF_vars(getPathForNode_getById(1))

\* C40: a getPathForNode call comes to its end for every id on every store,
\* parent cycles that do not pass through the root included.
C40_GetPathForNodeTerminates ==
    (pending[1].op = "getPathForNode") ~> (pending[1].pc = "done")

====
